---- MODULE Spec2Model ----
(***************************************************************************)
(* A model of the document-analysis pipeline: the AI payload normalizer    *)
(* (documents/ai_extraction.py), the intent resolver (documents/intent.py),*)
(* the semantic filters (documents/ai_filters.py), the field applier       *)
(* (documents/processing.py) and the processes that work on one document   *)
(* row: process_document_task and retention_cleanup_task                   *)
(* (documents/tasks.py) and process_document_view (documents/views.py).    *)
(*                                                                         *)
(* Python values are tagged records (field t names the Python type), a     *)
(* Python str is a sequence of one-character strings, and a raised         *)
(* exception is the record Raise(name), which every caller propagates.     *)
(***************************************************************************)
EXTENDS Integers, Sequences, FiniteSets, TLC

VARIABLES
    np_payload,   \* argument of the current normalize_ai_payload call
    np_result,    \* what the call returned (a dict value) or raised
    np_prev,      \* what the previous call on this chain returned
    np_round,     \* number of calls made on this chain
    np_pc,        \* "call" | "returned"
    ri_label,     \* resolve_intent: label argument
    ri_fields,    \* resolve_intent: builtin_fields argument, a list of <<key, label>>
    ri_allow_llm, \* resolve_intent: allow_llm argument
    ri_result,    \* the ResolvedIntent returned
    ri_pc,        \* "idle" | "call" | "returned"
    sf_call,      \* ai_filters: the function called and its arguments
    sf_result,    \* what it returned
    sf_pc,        \* "idle" | "call" | "returned"
    ap_call,      \* apply_extracted_fields: extracted_text, payload and the
                  \* values the text heuristics of services give
    ap_doc,       \* the fields of the document, as assigned so far
    ap_result,    \* what the call returned or raised
    ap_pc,        \* "idle" | "call" | "returned"
    doc_row,      \* the committed row of the document in the database, or NoRow
    file_stored,  \* whether the file of the document is in storage
    tk_pc,        \* per process, the step it is at
    tk_local      \* per process, its arguments and local variables

np_vars == <<np_payload, np_result, np_prev, np_round, np_pc>>
ri_vars == <<ri_label, ri_fields, ri_allow_llm, ri_result, ri_pc>>
sf_vars == <<sf_call, sf_result, sf_pc>>
ap_vars == <<ap_call, ap_doc, ap_result, ap_pc>>
tk_vars == <<doc_row, file_stored, tk_pc, tk_local>>
vars == <<np_vars, ri_vars, sf_vars, ap_vars, tk_vars>>

(***************************************************************************)
(* Bounds of the model.                                                    *)
(***************************************************************************)
\* normalize_ai_payload is applied at most this many times in a row
MaxRounds == 2
\* the large integer of the inputs is 10**BigExp (above the float range)
BigExp == 400
\* the longest generated list exceeds the largest list cap by this much
ListOver == 1

(***************************************************************************)
(* Python str: sequences of characters.                                    *)
(***************************************************************************)
Chars(s) == [i \in 1..Len(s) |-> SubSeq(s, i, i)]

\* str.isspace() on the characters of the model
IsSpace(c) == c \in {" ", "\t", "\n"}

UpperLetters == Chars("ABCDEFGHIJKLMNOPQRSTUVWXYZ")
LowerLetters == Chars("abcdefghijklmnopqrstuvwxyz")

\* str.lower() on one character; "U+00C9" and "U+00E9" stand for the
\* precomposed letters E-acute and e-acute, "U+00C7"/"U+00E7" for C-cedilla
LowerChar(c) ==
    IF \E i \in 1..26 : UpperLetters[i] = c
    THEN LowerLetters[CHOOSE i \in 1..26 : UpperLetters[i] = c]
    ELSE IF c = "U+00C9" THEN "U+00E9"
    ELSE IF c = "U+00C7" THEN "U+00E7"
    ELSE c

\* str.lower()
Lower(s) == [i \in 1..Len(s) |-> LowerChar(s[i])]

\* str.lstrip()
LStrip(s) ==
    IF \A i \in 1..Len(s) : IsSpace(s[i]) THEN <<>>
    ELSE SubSeq(s, CHOOSE i \in 1..Len(s) :
                       ~IsSpace(s[i]) /\ \A j \in 1..(i - 1) : IsSpace(s[j]),
                Len(s))

\* str.rstrip()
RStrip(s) ==
    IF \A i \in 1..Len(s) : IsSpace(s[i]) THEN <<>>
    ELSE SubSeq(s, 1, CHOOSE i \in 1..Len(s) :
                          ~IsSpace(s[i]) /\ \A j \in (i + 1)..Len(s) : IsSpace(s[j]))

\* str.strip()
Strip(s) == RStrip(LStrip(s))

\* the characters of body at the kept positions, whitespace as one space
JoinKept(body, kept) ==
    [n \in 1..Len(kept) |-> IF IsSpace(body[kept[n]]) THEN " " ELSE body[kept[n]]]

\* the words of a stripped string, one space between two words: of each
\* run of whitespace the last character is the one replaced by the space
JoinWords(body) ==
    JoinKept(body, SelectSeq([i \in 1..Len(body) |-> i],
                             LAMBDA i : ~IsSpace(body[i]) \/ ~IsSpace(body[i + 1])))

\* " ".join(s.split())
SplitJoin(s) == JoinWords(Strip(s))

\* s[:n]
Prefix(s, n) == SubSeq(s, 1, IF n < Len(s) THEN n ELSE Len(s))

RECURSIVE Digits(_)
\* the decimal digits of a natural number
Digits(n) ==
    IF n < 10 THEN <<SubSeq("0123456789", n + 1, n + 1)>>
    ELSE Digits(n \div 10) \o <<SubSeq("0123456789", (n % 10) + 1, (n % 10) + 1)>>

IsDigit(c) == c \in {"0", "1", "2", "3", "4", "5", "6", "7", "8", "9"}

DigitVal(c) == CHOOSE d \in 0..9 : SubSeq("0123456789", d + 1, d + 1) = c

RECURSIVE NatOfDigits(_)
\* the number a non-empty string of decimal digits denotes
NatOfDigits(s) ==
    IF Len(s) = 1 THEN DigitVal(s[1])
    ELSE 10 * NatOfDigits(SubSeq(s, 1, Len(s) - 1)) + DigitVal(s[Len(s)])

AllDigits(s) == s # <<>> /\ \A i \in 1..Len(s) : IsDigit(s[i])

(***************************************************************************)
(* Python values, as json.loads produces them.  The strings of the model   *)
(* contain no quote, backslash, underscore or exponent notation.           *)
(***************************************************************************)
None == [t |-> "NoneType"]
PyBool(b) == [t |-> "bool", b |-> b]
PyInt(n) == [t |-> "int", i |-> n]
\* the int 10**e, for an e too large for the model's integers
PyBigInt(e) == [t |-> "int", pow10 |-> e]
PyNaN == [t |-> "float", special |-> "nan"]
PyInf == [t |-> "float", special |-> "inf"]
PyNegInf == [t |-> "float", special |-> "-inf"]
PyStr(s) == [t |-> "str", s |-> s]
PyList(l) == [t |-> "list", l |-> l]
\* a dict keeps its items in insertion order: a sequence of <<key, value>>
PyDict(items) == [t |-> "dict", items |-> items]

RECURSIVE PyFloat(_, _)
\* the finite float mant / 10**scale, in lowest terms
PyFloat(mant, scale) ==
    IF scale > 0 /\ mant % 10 = 0 THEN PyFloat(mant \div 10, scale - 1)
    ELSE [t |-> "float", mant |-> mant, scale |-> scale]

\* a raised exception
Raise(exc) == [t |-> "raise", exc |-> exc]
IsRaise(x) == x.t = "raise"

IsDict(v) == v.t = "dict"
IsList(v) == v.t = "list"
IsSmallInt(v) == v.t = "int" /\ "i" \in DOMAIN v
IsBigInt(v) == v.t = "int" /\ "pow10" \in DOMAIN v
IsFinite(v) == v.t = "float" /\ "mant" \in DOMAIN v
IsSpecial(v, name) == v.t = "float" /\ "special" \in DOMAIN v /\ v.special = name

HasKey(d, k) == \E n \in 1..Len(d.items) : d.items[n][1] = k

\* dict.get(k): the value of key k, None when the key is absent
Get(d, k) ==
    IF HasKey(d, k)
    THEN d.items[CHOOSE n \in 1..Len(d.items) : d.items[n][1] = k][2]
    ELSE None

RECURSIVE Pow10(_)
Pow10(k) == IF k = 0 THEN 1 ELSE 10 * Pow10(k - 1)

\* int(text) for a stripped text: optional sign, decimal digits
IntOfStripped(body) ==
    IF body # <<>> /\ Head(body) \in {"+", "-"}
    THEN (IF ~AllDigits(Tail(body)) THEN Raise("ValueError")
          ELSE IF Head(body) = "-" THEN PyInt(0 - NatOfDigits(Tail(body)))
          ELSE PyInt(NatOfDigits(Tail(body))))
    ELSE (IF ~AllDigits(body) THEN Raise("ValueError") ELSE PyInt(NatOfDigits(body)))

\* int(text): surrounding whitespace is ignored
IntOfStr(s) == IntOfStripped(Strip(s))

\* int(value)
IntOf(v) ==
    CASE v.t = "bool" -> PyInt(IF v.b THEN 1 ELSE 0)
      [] v.t = "int" -> v
      [] IsSpecial(v, "nan") -> Raise("ValueError")
      [] IsSpecial(v, "inf") \/ IsSpecial(v, "-inf") -> Raise("OverflowError")
      [] IsFinite(v) ->
            \* truncation towards zero
            IF v.mant >= 0 THEN PyInt(v.mant \div Pow10(v.scale))
            ELSE PyInt(0 - ((0 - v.mant) \div Pow10(v.scale)))
      [] v.t = "str" -> IntOfStr(v.s)
      [] OTHER -> Raise("TypeError")

\* the float with the given sign, digits before and digits after the point
FloatOfParts(neg, whole, frac) ==
    IF /\ whole \o frac # <<>>
       /\ \A i \in 1..Len(whole) : IsDigit(whole[i])
       /\ \A i \in 1..Len(frac) : IsDigit(frac[i])
    THEN PyFloat((IF neg THEN 0 - 1 ELSE 1) * NatOfDigits(whole \o frac), Len(frac))
    ELSE Raise("ValueError")

\* float(text) for an unsigned text: nan, inf, infinity, or decimal digits
\* with an optional fraction
FloatOfUnsigned(neg, rest) ==
    IF rest = Chars("nan") THEN PyNaN
    ELSE IF rest \in {Chars("inf"), Chars("infinity")}
    THEN (IF neg THEN PyNegInf ELSE PyInf)
    ELSE IF \A i \in 1..Len(rest) : rest[i] # "."
    THEN FloatOfParts(neg, rest, <<>>)
    ELSE FloatOfParts(neg,
            SubSeq(rest, 1, (CHOOSE i \in 1..Len(rest) :
                                rest[i] = "." /\ \A j \in 1..(i - 1) : rest[j] # ".") - 1),
            SubSeq(rest, (CHOOSE i \in 1..Len(rest) :
                                rest[i] = "." /\ \A j \in 1..(i - 1) : rest[j] # ".") + 1,
                   Len(rest)))

\* float(text) for a stripped, lower-cased text
FloatOfStripped(body) ==
    IF body # <<>> /\ Head(body) \in {"+", "-"}
    THEN FloatOfUnsigned(Head(body) = "-", Tail(body))
    ELSE FloatOfUnsigned(FALSE, body)

\* float(text): surrounding whitespace and case are ignored
FloatOfStr(s) == FloatOfStripped(Lower(Strip(s)))

\* float(value); 10**e exceeds the largest finite double when e > 308
FloatOf(v) ==
    CASE v.t = "bool" -> PyFloat(IF v.b THEN 1 ELSE 0, 0)
      [] IsSmallInt(v) -> PyFloat(v.i, 0)
      [] IsBigInt(v) ->
            IF v.pow10 > 308 THEN Raise("OverflowError")
            ELSE [t |-> "float", mant |-> 1, scale |-> 0 - v.pow10]
      [] v.t = "float" -> v
      [] v.t = "str" -> FloatOfStr(v.s)
      [] OTHER -> Raise("TypeError")

\* x < 0 for a float x (false for nan)
FloatNegative(x) == IsSpecial(x, "-inf") \/ (IsFinite(x) /\ x.mant < 0)

\* x > 1 for a float x (false for nan)
FloatAboveOne(x) ==
    \/ IsSpecial(x, "inf")
    \/ IsFinite(x) /\ x.scale >= 0 /\ x.mant > Pow10(x.scale)
    \/ IsFinite(x) /\ x.scale < 0 /\ x.mant > 0

\* 0 <= x <= 1 for a float x (false for nan)
FloatInUnit(x) ==
    IsFinite(x) /\ x.scale >= 0 /\ x.mant >= 0 /\ x.mant <= Pow10(x.scale)

\* str(n) for an int
StrOfInt(v) ==
    IF IsBigInt(v) THEN <<"1">> \o [n \in 1..v.pow10 |-> "0"]
    ELSE IF v.i < 0 THEN <<"-">> \o Digits(0 - v.i)
    ELSE Digits(v.i)

\* the decimal notation of abs / 10**scale, for scale >= 0
Decimal(abs, scale) ==
    Digits(abs \div Pow10(scale)) \o <<".">>
    \o (IF scale = 0 THEN <<"0">>
        ELSE [n \in 1..(scale - Len(Digits(abs % Pow10(scale)))) |-> "0"]
             \o Digits(abs % Pow10(scale)))

\* repr(x) for a float
StrOfFloat(v) ==
    IF ~IsFinite(v) THEN Chars(v.special)
    ELSE IF v.scale < 0 THEN <<"1">> \o Chars("e+") \o Digits(0 - v.scale)
    ELSE IF v.mant < 0 THEN <<"-">> \o Decimal(0 - v.mant, v.scale)
    ELSE Decimal(v.mant, v.scale)

RECURSIVE ReprChars(_, _, _)
\* the characters lo..hi of s, with tab and newline escaped
ReprChars(s, lo, hi) ==
    IF lo > hi THEN <<>>
    ELSE IF lo = hi
    THEN (IF s[lo] = "\t" THEN <<"\\", "t">>
          ELSE IF s[lo] = "\n" THEN <<"\\", "n">>
          ELSE <<s[lo]>>)
    ELSE ReprChars(s, lo, (lo + hi) \div 2) \o ReprChars(s, ((lo + hi) \div 2) + 1, hi)

\* repr(text) for a str: quoted, with tab and newline escaped
ReprOfStr(s) == <<"'">> \o ReprChars(s, 1, Len(s)) \o <<"'">>

RECURSIVE ReprOf(_)
RECURSIVE ReprJoin(_, _)
\* ", ".join of the reprs of a list's elements, from position i on
ReprJoin(l, i) ==
    IF i > Len(l) THEN <<>>
    ELSE (IF i > 1 THEN <<",", " ">> ELSE <<>>) \o ReprOf(l[i]) \o ReprJoin(l, i + 1)

RECURSIVE ReprItems(_, _)
\* ", ".join of "key: value" for a dict's items, from position i on
ReprItems(items, i) ==
    IF i > Len(items) THEN <<>>
    ELSE (IF i > 1 THEN <<",", " ">> ELSE <<>>)
         \o ReprOfStr(Chars(items[i][1])) \o <<":", " ">> \o ReprOf(items[i][2])
         \o ReprItems(items, i + 1)

\* repr(value)
ReprOf(v) ==
    CASE v.t = "NoneType" -> Chars("None")
      [] v.t = "bool" -> IF v.b THEN Chars("True") ELSE Chars("False")
      [] v.t = "int" -> StrOfInt(v)
      [] v.t = "float" -> StrOfFloat(v)
      [] v.t = "str" -> ReprOfStr(v.s)
      [] v.t = "list" -> <<"[">> \o ReprJoin(v.l, 1) \o <<"]">>
      [] v.t = "dict" -> <<"{">> \o ReprItems(v.items, 1) \o <<"}">>

\* str(value)
StrOf(v) == IF v.t = "str" THEN v.s ELSE ReprOf(v)

(***************************************************************************)
(* documents/ai_extraction.py: the payload normalizer.                     *)
(***************************************************************************)
DOC_TYPE_CHOICES ==
    {Chars("curriculo"), Chars("contrato"), Chars("nota_fiscal"), Chars("boleto"),
     Chars("fatura"), Chars("recibo"), Chars("comprovante"), Chars("outro")}
SENIORITY_CHOICES ==
    {Chars("junior"), Chars("pleno"), Chars("senior"), Chars("lead"), Chars("unknown")}
SKILL_LEVEL_CHOICES ==
    {Chars("unknown"), Chars("basic"), Chars("intermediate"), Chars("advanced")}

\* the end of _clean_text: cleaned[:max_len].rstrip() when too long
Truncated(cleaned, max_len) ==
    IF max_len # 0 /\ Len(cleaned) > max_len
    THEN RStrip(Prefix(cleaned, max_len))
    ELSE cleaned

\* _clean_text(value, max_len=...): the cleaned characters
CleanText(value, max_len) ==
    IF value = None THEN <<>>
    ELSE Truncated(Strip(SplitJoin(StrOf(value))), max_len)

\* cleaned or None
OrNone(cleaned) == IF cleaned = <<>> THEN None ELSE PyStr(cleaned)

\* _clean_optional_text(value, max_len=...)
CleanOptionalText(value, max_len) == OrNone(CleanText(value, max_len))

\* _clean_int after parsed = int(value): only TypeError and ValueError are
\* caught, then the range check
CheckedInt(parsed, min_value, max_value) ==
    IF IsRaise(parsed)
    THEN (IF parsed.exc \in {"TypeError", "ValueError"} THEN None ELSE parsed)
    ELSE IF IsBigInt(parsed) THEN None
    ELSE IF parsed.i < min_value \/ parsed.i > max_value THEN None
    ELSE parsed

\* _clean_int(value, min_value=..., max_value=...)
CleanInt(value, min_value, max_value) ==
    IF value = None THEN None ELSE CheckedInt(IntOf(value), min_value, max_value)

\* _clean_float after parsed = float(value): only TypeError and ValueError
\* are caught, then the two comparisons
ClampedFloat(parsed) ==
    IF IsRaise(parsed)
    THEN (IF parsed.exc \in {"TypeError", "ValueError"} THEN PyFloat(0, 0) ELSE parsed)
    ELSE IF FloatNegative(parsed) THEN PyFloat(0, 0)
    ELSE IF FloatAboveOne(parsed) THEN PyFloat(1, 0)
    ELSE parsed

\* _clean_float(value)
CleanFloat(value) == ClampedFloat(FloatOf(value))

\* SeenKey with the lower-casing forgotten: the seen set holds the text itself
SeenKeyCaseSensitive(text) == text

\* lowered = text.lower(): the key of the seen set
SeenKey(text) == Lower(text)

\* the elements the loop of _clean_list appends, given the cleaned text and
\* the seen-key of every element: element i is appended iff its text is not
\* empty and no earlier element has its key
Appended(texts, keys) ==
    SelectSeq([i \in 1..Len(texts) |-> i],
              LAMBDA i : texts[i] # <<>> /\ \A j \in 1..(i - 1) : keys[j] # keys[i])

\* the list the loop of _clean_list builds: it breaks once max_items
\* elements are appended
CleanListLoop(texts, appended, max_items) ==
    [n \in 1..(IF Len(appended) < max_items THEN Len(appended) ELSE max_items) |->
        PyStr(texts[appended[n]])]

\* the cleaned texts of the elements of a list
CleanTexts(values, max_len) ==
    SubSeq([i \in 1..Len(values) |-> CleanText(values[i], max_len)], 1, Len(values))

\* _clean_list on a list, given the cleaned texts of its elements
CleanListOf(texts, max_items) ==
    CleanListLoop(texts,
                  Appended(texts, SubSeq([i \in 1..Len(texts) |-> SeenKey(texts[i])],
                                         1, Len(texts))),
                  max_items)

\* _clean_list(values, max_items=..., max_len=...)
CleanList(values, max_items, max_len) ==
    IF ~IsList(values) THEN PyList(<<>>)
    ELSE PyList(CleanListOf(CleanTexts(values.l, max_len), max_items))

\* (lowered or default), replaced by default when not in the allow-set
Allowed(lowered, choices, default) ==
    IF lowered # <<>> /\ lowered \in choices THEN PyStr(lowered) ELSE PyStr(default)

\* _clean_text(value, max_len=...).lower() or default, then the allow-set
CleanEnum(value, max_len, choices, default) ==
    Allowed(Lower(CleanText(value, max_len)), choices, default)

\* SkillOf with the evidence check forgotten: a skill without evidence is kept
SkillOfWithoutEvidenceCheck(name, level, evidence) ==
    IF name = <<>> THEN None
    ELSE PyDict(<< <<"name", PyStr(name)>>, <<"level", level>>,
                   <<"evidence", PyStr(evidence)>> >>)

\* the checks of _normalize_skill on the cleaned fields
SkillOf(name, level, evidence) ==
    IF name = <<>> THEN None
    ELSE IF evidence = <<>> THEN None
    ELSE PyDict(<< <<"name", PyStr(name)>>, <<"level", level>>,
                   <<"evidence", PyStr(evidence)>> >>)

\* _normalize_skill(raw)
NormalizeSkill(raw) ==
    IF ~IsDict(raw) THEN None
    ELSE SkillOf(CleanText(Get(raw, "name"), 120),
                 CleanEnum(Get(raw, "level"), 20, SKILL_LEVEL_CHOICES, Chars("unknown")),
                 CleanText(Get(raw, "evidence"), 220))

\* the check of _normalize_education on the cleaned fields
EducationOf(degree, institution, evidence) ==
    IF evidence = <<>> THEN None
    ELSE PyDict(<< <<"degree", degree>>, <<"institution", institution>>,
                   <<"evidence", PyStr(evidence)>> >>)

\* _normalize_education(raw)
NormalizeEducation(raw) ==
    IF ~IsDict(raw) THEN None
    ELSE EducationOf(CleanOptionalText(Get(raw, "degree"), 160),
                     CleanOptionalText(Get(raw, "institution"), 160),
                     CleanText(Get(raw, "evidence"), 220))

\* the check of _normalize_keyword_evidence on the cleaned fields
KeywordEvidenceOf(term, evidence) ==
    IF term = <<>> \/ evidence = <<>> THEN None
    ELSE PyDict(<< <<"term", PyStr(term)>>, <<"evidence", PyStr(evidence)>> >>)

\* _normalize_keyword_evidence(raw)
NormalizeKeywordEvidence(raw) ==
    IF ~IsDict(raw) THEN None
    ELSE KeywordEvidenceOf(CleanText(Get(raw, "term"), 120),
                           CleanText(Get(raw, "evidence"), 220))

\* the per-item normalizer of one composite list of the payload
NormalizeItem(field, raw) ==
    CASE field = "skills" -> NormalizeSkill(raw)
      [] field = "education" -> NormalizeEducation(raw)
      [] field = "keywords_evidence" -> NormalizeKeywordEvidence(raw)

\* one of the three collecting loops of normalize_ai_payload: the items
\* that normalize to a dict are appended in order, and the loop breaks once
\* cap of them are
CollectLoop(field, items, cap) ==
    Prefix(SelectSeq(SubSeq([i \in 1..Len(items) |-> NormalizeItem(field, items[i])],
                            1, Len(items)),
                     LAMBDA normalized : normalized # None),
           cap)

\* payload.get(field) if it is a list, else []
ListOrEmpty(payload, field) ==
    IF IsList(Get(payload, field)) THEN Get(payload, field).l ELSE <<>>

\* payload.get(field) if it is a dict, else {}
DictOrEmpty(payload, field) ==
    IF IsDict(Get(payload, field)) THEN Get(payload, field) ELSE PyDict(<<>>)

\* the dict literal normalize_ai_payload returns; its values are evaluated
\* in order, and the first exception a numeric conversion raises leaves
NormalizedDict(payload, person_raw, exp_raw, age, years, overall) ==
    IF IsRaise(age) THEN age
    ELSE IF IsRaise(years) THEN years
    ELSE IF IsRaise(overall) THEN overall
    ELSE PyDict(<<
        <<"doc_type",
          CleanEnum(Get(payload, "doc_type"), 40, DOC_TYPE_CHOICES, Chars("outro"))>>,
        <<"person", PyDict(<<
            <<"name", CleanOptionalText(Get(person_raw, "name"), 160)>>,
            <<"emails", CleanList(Get(person_raw, "emails"), 10, 120)>>,
            <<"phones", CleanList(Get(person_raw, "phones"), 10, 32)>>,
            <<"location", CleanOptionalText(Get(person_raw, "location"), 160)>>,
            <<"age_estimate_years", age>>,
            <<"age_evidence",
              CleanOptionalText(Get(person_raw, "age_evidence"), 220)>> >>)>>,
        <<"experience", PyDict(<<
            <<"years_estimate", years>>,
            <<"years_evidence",
              CleanOptionalText(Get(exp_raw, "years_evidence"), 220)>>,
            <<"seniority",
              CleanEnum(Get(exp_raw, "seniority"), 20, SENIORITY_CHOICES,
                        Chars("unknown"))>>,
            <<"roles", CleanList(Get(exp_raw, "roles"), 20, 120)>>,
            <<"companies", CleanList(Get(exp_raw, "companies"), 20, 120)>> >>)>>,
        <<"skills",
          PyList(CollectLoop("skills", ListOrEmpty(payload, "skills"), 30))>>,
        <<"education",
          PyList(CollectLoop("education", ListOrEmpty(payload, "education"), 20))>>,
        <<"keywords_evidence",
          PyList(CollectLoop("keywords_evidence",
                             ListOrEmpty(payload, "keywords_evidence"), 40))>>,
        <<"confidence", PyDict(<< <<"overall", overall>> >>)>> >>)

\* normalize_ai_payload once payload, person_raw, exp_raw and
\* confidence_raw are bound
NormalizeRaw(payload, person_raw, exp_raw, confidence_raw) ==
    NormalizedDict(payload, person_raw, exp_raw,
                   CleanInt(Get(person_raw, "age_estimate_years"), 0, 120),
                   CleanInt(Get(exp_raw, "years_estimate"), 0, 60),
                   CleanFloat(Get(confidence_raw, "overall")))

\* normalize_ai_payload once payload is bound to a dict
NormalizeDict(payload) ==
    NormalizeRaw(payload, DictOrEmpty(payload, "person"),
                 DictOrEmpty(payload, "experience"), DictOrEmpty(payload, "confidence"))

\* normalize_ai_payload(payload): the normalized dict, or the exception a
\* numeric conversion raised
normalize_ai_payload(arg) == NormalizeDict(IF IsDict(arg) THEN arg ELSE PyDict(<<>>))

(***************************************************************************)
(* The inputs of normalize_ai_payload: JSON-decoded values of every shape. *)
(***************************************************************************)
\* "abc abc abc ...": cut at any max_len of the module, the cut ends in a space
LongText == PyStr([i \in 1..240 |-> Chars("abc ")[((i - 1) % 4) + 1]])

\* values that are neither dict nor list
ScalarSamples ==
    {None, PyBool(TRUE), PyInt(0), PyInt(7), PyFloat(5, 1), PyNaN,
     PyBigInt(BigExp), PyStr(<<>>), PyStr(Chars("x"))}

\* values handed to a text or enum field
TextSamples ==
    ScalarSamples \cup
    {PyStr(Chars("  Ana \t Maria \n")), PyStr(Chars("   ")), PyStr(Chars("SENIOR")),
     PyStr(Chars(" Curriculo ")), PyStr(Chars("Advanced")), PyStr(Chars("guru")),
     PyStr(Chars("boleto")), LongText, PyList(<<>>), PyList(<<PyStr(Chars("a\tb")), None>>),
     PyDict(<<>>), PyDict(<< <<"k", PyInt(1)>> >>)}

\* values handed to a numeric field
NumSamples ==
    {None, PyBool(TRUE), PyBool(FALSE), PyInt(0 - 1), PyInt(0), PyInt(1), PyInt(5),
     PyInt(60), PyInt(61), PyInt(120), PyInt(121), PyBigInt(BigExp),
     PyFloat(37, 1), PyFloat(5, 1), PyFloat(0 - 5, 1), PyFloat(15, 1), PyFloat(1, 0),
     PyFloat(840, 1), PyNaN, PyInf, PyNegInf,
     PyStr(Chars("5")), PyStr(Chars(" 42 ")), PyStr(Chars("+7")), PyStr(Chars("-1")),
     PyStr(Chars("121")), PyStr(Chars("3.7")), PyStr(Chars("0.5")), PyStr(Chars(".25")),
     PyStr(Chars("1.50")), PyStr(Chars("abc")), PyStr(<<>>), PyStr(Chars("nan")),
     PyStr(Chars("NaN")), PyStr(Chars("inf")), PyStr(Chars("-Infinity")),
     PyStr(Chars("1.2.3")), PyStr(Chars(".")), PyList(<<>>), PyList(<<PyInt(5)>>),
     PyDict(<<>>)}

\* the items of the generated string lists
ListItems ==
    {None, PyStr(Chars("Ana")), PyStr(Chars("ana")), PyStr(Chars(" ANA  ")),
     PyStr(Chars("Bob")), PyStr(Chars(" ")), PyBool(TRUE), PyStr(Chars("true"))}

\* every list of at most n items
ListsUpTo(items, n) == UNION {[1..k -> items] : k \in 0..n}

\* the longest generated list of items
MaxListLen == 2

\* n items with n / 2 distinct cleaned forms up to case: "1", "x1", "X1", "2", ...
Numbered(n) ==
    PyList([k \in 1..n |->
        IF k % 3 = 1 THEN PyInt((k + 2) \div 3)
        ELSE IF k % 3 = 2 THEN PyStr(<<"x">> \o Digits((k + 1) \div 3))
        ELSE PyStr(<<"X">> \o Digits(k \div 3))])

\* values handed to a list-of-strings field
ListSamples ==
    ScalarSamples \cup {PyDict(<<>>)}
    \cup {PyList(l) : l \in ListsUpTo(ListItems, MaxListLen)}
    \cup {PyList(<<PyStr(Chars("Ana")), PyStr(Chars("Bob")), PyStr(Chars("ANA")),
                   PyStr(Chars("bob ")), PyStr(Chars("ana"))>>),
          PyList(<<LongText, PyInt(3), PyList(<<>>), PyFloat(5, 1), PyDict(<<>>)>>)}
    \cup {Numbered(n) : n \in {15, 16, 30, 30 + ListOver, 31 + ListOver}}

\* an item of a composite list with the given fields (None: key absent)
Item(f1, v1, f2, v2, f3, v3) ==
    PyDict(SelectSeq(<< <<f1, v1>>, <<f2, v2>>, <<f3, v3>> >>,
                     LAMBDA kv : kv[2] # [t |-> "absent"]))

Absent == [t |-> "absent"]

SkillItems ==
    {None, PyStr(Chars("Docker")), PyList(<<>>)}
    \cup {Item("name", n, "level", l, "evidence", e) :
            n \in {Absent, None, PyStr(Chars(" ")), PyStr(Chars("Docker"))},
            l \in {Absent, PyStr(Chars("Advanced")), PyStr(Chars("guru"))},
            e \in {Absent, PyStr(Chars("  ")), PyStr(Chars("Usa  Docker")), PyInt(3)}}

EducationItems ==
    {None, PyInt(1)}
    \cup {Item("degree", d, "institution", i, "evidence", e) :
            d \in {Absent, PyStr(Chars(" ")), PyStr(Chars("BSc"))},
            i \in {Absent, None, PyStr(Chars("USP"))},
            e \in {Absent, None, PyStr(<<>>), PyStr(Chars("BSc  USP 2010"))}}

KeywordItems ==
    {None, PyStr(Chars("python"))}
    \cup {Item("term", t, "evidence", e, "other", Absent) :
            t \in {Absent, None, PyStr(Chars("\t")), PyStr(Chars("Python")), PyInt(7)},
            e \in {Absent, None, PyStr(Chars(" ")), PyStr(Chars("usa Python")), LongText}}

\* n composite items of which every third one lacks its evidence
NumberedItems(field, n) ==
    PyList([k \in 1..n |->
        IF k % 3 = 0
        THEN Item("name", PyInt(k), "term", PyInt(k), "degree", PyInt(k))
        ELSE PyDict(<< <<"name", PyInt(k)>>, <<"term", PyInt(k)>>,
                       <<"evidence", PyStr(<<"e">> \o Digits(k))>> >>)])

CompositeSamples(items) ==
    ScalarSamples \cup {PyDict(<<>>)}
    \cup {PyList(l) : l \in ListsUpTo(items, 1)}
    \cup {NumberedItems("", n) : n \in {29, 30, 44, 45, 59, 60, 60 + ListOver}}

\* a dict with the one key k
One(k, v) == PyDict(<< <<k, v>> >>)

PersonSamples ==
    ScalarSamples \cup {PyList(<<>>), PyDict(<<>>)}
    \cup {One("name", v) : v \in TextSamples}
    \cup {One("location", v) : v \in TextSamples}
    \cup {One("age_evidence", v) : v \in TextSamples}
    \cup {One("emails", v) : v \in ListSamples}
    \cup {One("phones", v) : v \in ListSamples}
    \cup {One("age_estimate_years", v) : v \in NumSamples}

ExperienceSamples ==
    ScalarSamples \cup {PyList(<<>>), PyDict(<<>>)}
    \cup {One("years_evidence", v) : v \in TextSamples}
    \cup {One("seniority", v) : v \in TextSamples}
    \cup {One("roles", v) : v \in ListSamples}
    \cup {One("companies", v) : v \in ListSamples}
    \cup {One("years_estimate", v) : v \in NumSamples}

ConfidenceSamples ==
    ScalarSamples \cup {PyList(<<>>), PyDict(<<>>)}
    \cup {One("overall", v) : v \in NumSamples}

\* the payload of documents/tests/test_sanitize_payload.py, with the given
\* numeric fields
FullPayload(age, years, overall) ==
    PyDict(<<
        <<"doc_type", PyStr(Chars("curriculo"))>>,
        <<"person", PyDict(<<
            <<"name", PyStr(Chars("Maria"))>>,
            <<"emails", PyList(<<PyStr(Chars("maria@email.com"))>>)>>,
            <<"phones", PyList(<<>>)>>,
            <<"location", None>>,
            <<"age_estimate_years", age>>,
            <<"age_evidence", None>> >>)>>,
        <<"experience", PyDict(<<
            <<"years_estimate", years>>,
            <<"years_evidence", PyStr(Chars("2019-2024"))>>,
            <<"seniority", PyStr(Chars("pleno"))>>,
            <<"roles", PyList(<<PyStr(Chars("Backend"))>>)>>,
            <<"companies", PyList(<<PyStr(Chars("Empresa X"))>>)>> >>)>>,
        <<"skills", PyList(<<>>)>>,
        <<"education", PyList(<<>>)>>,
        <<"keywords_evidence", PyList(<<>>)>>,
        <<"confidence", PyDict(<< <<"overall", overall>> >>)>> >>)

Payloads ==
    ScalarSamples \cup {PyList(<<>>), PyDict(<<>>)}
    \cup {One("doc_type", v) : v \in TextSamples}
    \cup {One("person", v) : v \in PersonSamples}
    \cup {One("experience", v) : v \in ExperienceSamples}
    \cup {One("confidence", v) : v \in ConfidenceSamples}
    \cup {One("skills", v) : v \in CompositeSamples(SkillItems)}
    \cup {One("education", v) : v \in CompositeSamples(EducationItems)}
    \cup {One("keywords_evidence", v) : v \in CompositeSamples(KeywordItems)}
    \cup {FullPayload(a, y, o) :
            a \in {None, PyInt(33), PyInf}, y \in {PyInt(5), PyInt(61), PyNegInf},
            o \in {PyFloat(8, 1), PyNaN, PyBigInt(BigExp)}}

(***************************************************************************)
(* The normalizer as a state machine: a payload is normalized, and the     *)
(* normalized payload may be normalized again.                             *)
(***************************************************************************)
NotCalled == [t |-> "not called"]

NpInit ==
    /\ np_payload \in Payloads
    /\ np_result = NotCalled
    /\ np_prev = NotCalled
    /\ np_round = 0
    /\ np_pc = "call"

RiIdle ==
    /\ ri_label = <<>>
    /\ ri_fields = <<>>
    /\ ri_allow_llm = FALSE
    /\ ri_result = NotCalled
    /\ ri_pc = "idle"

SfIdle ==
    /\ sf_call = NotCalled
    /\ sf_result = NotCalled
    /\ sf_pc = "idle"

ApIdle ==
    /\ ap_call = NotCalled
    /\ ap_doc = NotCalled
    /\ ap_result = NotCalled
    /\ ap_pc = "idle"

\* no process works on the document
TkIdle ==
    /\ doc_row = NotCalled
    /\ file_stored = FALSE
    /\ tk_pc = NotCalled
    /\ tk_local = NotCalled

\* normalized = normalize_ai_payload(parsed)
Normalize ==
    /\ np_pc = "call"
    /\ np_result' = normalize_ai_payload(np_payload)
    /\ np_round' = np_round + 1
    /\ np_pc' = "returned"
    /\ UNCHANGED <<np_payload, np_prev, ri_vars, sf_vars, ap_vars, tk_vars>>

\* the normalized payload is handed to normalize_ai_payload again
Renormalize ==
    /\ np_pc = "returned"
    /\ ~IsRaise(np_result)
    /\ np_round < MaxRounds
    /\ np_payload' = np_result
    /\ np_prev' = np_result
    /\ np_pc' = "call"
    /\ UNCHANGED <<np_result, np_round, ri_vars, sf_vars, ap_vars, tk_vars>>

NpNext == Normalize \/ Renormalize

InitNormalize == NpInit /\ RiIdle /\ SfIdle /\ ApIdle /\ TkIdle

SpecNormalize == InitNormalize /\ [][NpNext]_vars

(***************************************************************************)
(* documents/intent.py: the intent resolver.  A builtin field is a pair    *)
(* <<key, label>> of strs; the tables are those of intent_catalog, as      *)
(* migration 0006 lists them.                                              *)
(***************************************************************************)
\* SYNONYM_MAP, in insertion order
SYNONYM_MAP ==
    << <<Chars("codigo de barras"), Chars("barcode")>>,
       <<Chars("linha digitavel"), Chars("barcode")>>,
       <<Chars("barcode"), Chars("barcode")>>,
       <<Chars("vencimento"), Chars("due_date")>>,
       <<Chars("data de vencimento"), Chars("due_date")>>,
       <<Chars("data vencimento"), Chars("due_date")>>,
       <<Chars("valor"), Chars("document_value")>>,
       <<Chars("valor do documento"), Chars("document_value")>>,
       <<Chars("valor total"), Chars("document_value")>>,
       <<Chars("total a pagar"), Chars("document_value")>>,
       <<Chars("cnpj"), Chars("cnpj")>>,
       <<Chars("cpf"), Chars("cpf")>>,
       <<Chars("juros"), Chars("juros")>>,
       <<Chars("multa"), Chars("multa")>>,
       <<Chars("endereco de cobranca"), Chars("billing_address")>>,
       <<Chars("local de cobranca"), Chars("billing_address")>>,
       <<Chars("nome do cedente"), Chars("payee_name")>>,
       <<Chars("nome do sacado"), Chars("payer_name")>>,
       <<Chars("nosso numero"), Chars("document_number")>>,
       <<Chars("numero do documento"), Chars("document_number")>>,
       <<Chars("numero da conta"), Chars("document_number")>>,
       <<Chars("instrucoes"), Chars("instructions")>> >>

\* TYPE_BY_BUILTIN
TYPE_BY_BUILTIN ==
    << <<Chars("due_date"), "date">>, <<Chars("document_value"), "money">>,
       <<Chars("barcode"), "barcode">>, <<Chars("billing_address"), "address">>,
       <<Chars("cnpj"), "cnpj">>, <<Chars("cpf"), "cpf">>,
       <<Chars("payee_name"), "text">>, <<Chars("payer_name"), "text">>,
       <<Chars("document_number"), "id">>, <<Chars("instructions"), "text">>,
       <<Chars("juros"), "money">>, <<Chars("multa"), "money">> >>

\* FUZZY_THRESHOLD, in hundredths
FUZZY_THRESHOLD == 84

\* unicodedata.combining(ch) # 0: the combining acute accent and cedilla
Combining(c) == c \in {"U+0301", "U+0327"}

\* unicodedata.normalize("NFKD", ch) for one character
Decomposed(c) ==
    IF c = "U+00E9" THEN <<"e", "U+0301">>
    ELSE IF c = "U+00C9" THEN <<"E", "U+0301">>
    ELSE IF c = "U+00E7" THEN <<"c", "U+0327">>
    ELSE IF c = "U+00C7" THEN <<"C", "U+0327">>
    ELSE <<c>>

RECURSIVE NFKD(_, _, _)
\* unicodedata.normalize("NFKD", s[lo..hi])
NFKD(s, lo, hi) ==
    IF lo > hi THEN <<>>
    ELSE IF lo = hi THEN Decomposed(s[lo])
    ELSE NFKD(s, lo, (lo + hi) \div 2) \o NFKD(s, ((lo + hi) \div 2) + 1, hi)

\* re.sub(r"\s+", " ", s): each run of whitespace becomes one space
CollapseSpaces(s) ==
    JoinKept(s, SelectSeq([i \in 1..Len(s) |-> i],
                          LAMBDA i : ~IsSpace(s[i]) \/ i = Len(s) \/ ~IsSpace(s[i + 1])))

\* "".join(ch for ch in normalized if not unicodedata.combining(ch))
WithoutCombining(s) == SelectSeq(s, LAMBDA c : ~Combining(c))

\* _normalize_label(value)
NormalizeLabel(value) ==
    CollapseSpaces(WithoutCombining(NFKD(Lower(Strip(value)), 1, Len(Strip(value)))))

\* sub in s
Contains(s, sub) ==
    \E i \in 0..(Len(s) - Len(sub)) : SubSeq(s, i + 1, i + Len(sub)) = sub

\* any(term in s for term in terms)
ContainsAny(s, terms) == \E term \in terms : Contains(s, Chars(term))

\* TYPE_BY_BUILTIN.get(builtin_key, "text")
TypeOfBuiltin(builtin_key) ==
    IF \E n \in 1..Len(TYPE_BY_BUILTIN) : TYPE_BY_BUILTIN[n][1] = builtin_key
    THEN TYPE_BY_BUILTIN[CHOOSE n \in 1..Len(TYPE_BY_BUILTIN) :
                             TYPE_BY_BUILTIN[n][1] = builtin_key][2]
    ELSE "text"

\* a type inference that looks at the label text even when a key is known
InferTypeFromText(normalized, builtin_key) ==
    IF Contains(normalized, Chars("cnpj")) THEN "cnpj"
    ELSE IF Contains(normalized, Chars("cpf")) THEN "cpf"
    ELSE IF ContainsAny(normalized, {"barra", "linha", "barcode"}) THEN "barcode"
    ELSE IF ContainsAny(normalized, {"vencimento", "data"}) THEN "date"
    ELSE IF ContainsAny(normalized, {"valor", "total", "juros", "multa", "preco"})
    THEN "money"
    ELSE IF Contains(normalized, Chars("cep")) THEN "postal"
    ELSE IF ContainsAny(normalized, {"endereco", "logradouro", "rua", "avenida"})
    THEN "address"
    ELSE IF ContainsAny(normalized, {"numero", "n ", "no ", "matricula", "cliente"})
    THEN "id"
    ELSE IF builtin_key # <<>> THEN TypeOfBuiltin(builtin_key)
    ELSE "text"

\* _infer_type(normalized, builtin_key)
InferType(normalized, builtin_key) ==
    IF builtin_key # <<>> THEN TypeOfBuiltin(builtin_key)
    ELSE IF Contains(normalized, Chars("cnpj")) THEN "cnpj"
    ELSE IF Contains(normalized, Chars("cpf")) THEN "cpf"
    ELSE IF ContainsAny(normalized, {"barra", "linha", "barcode"}) THEN "barcode"
    ELSE IF ContainsAny(normalized, {"vencimento", "data"}) THEN "date"
    ELSE IF ContainsAny(normalized, {"valor", "total", "juros", "multa", "preco"})
    THEN "money"
    ELSE IF Contains(normalized, Chars("cep")) THEN "postal"
    ELSE IF ContainsAny(normalized, {"endereco", "logradouro", "rua", "avenida"})
    THEN "address"
    ELSE IF ContainsAny(normalized, {"numero", "n ", "no ", "matricula", "cliente"})
    THEN "id"
    ELSE "text"

\* the candidates one builtin field contributes: its key, then its label
FieldCandidates(key, key_norm, label_norm) ==
    (IF key_norm # <<>> THEN << <<key_norm, key, "exact">> >> ELSE <<>>)
    \o (IF label_norm # <<>> THEN << <<label_norm, key, "label">> >> ELSE <<>>)

RECURSIVE BuiltinCandidates(_, _)
\* the first loop of _build_builtin_candidates, from field n on
BuiltinCandidates(builtin_fields, n) ==
    IF n > Len(builtin_fields) THEN <<>>
    ELSE FieldCandidates(builtin_fields[n][1], NormalizeLabel(builtin_fields[n][1]),
                         NormalizeLabel(builtin_fields[n][2]))
         \o BuiltinCandidates(builtin_fields, n + 1)

\* the second loop of _build_builtin_candidates
SynonymCandidates ==
    [n \in 1..Len(SYNONYM_MAP) |->
        <<NormalizeLabel(SYNONYM_MAP[n][1]), SYNONYM_MAP[n][2], "synonym">>]

\* _build_builtin_candidates(builtin_fields): <<candidate, key, strategy>>
BuildBuiltinCandidates(builtin_fields) ==
    BuiltinCandidates(builtin_fields, 1) \o SynonymCandidates

(***************************************************************************)
(* difflib.SequenceMatcher(None, a, b).ratio(): no junk, and no popular    *)
(* elements below 200 characters.  Positions are 1-based, ranges closed.   *)
(* A score is the fraction num/den.                                        *)
(***************************************************************************)
Frac(num, den) == [num |-> num, den |-> den]
Greater(x, y) == x.num * y.den > y.num * x.den
Min2(x, y) == IF x < y THEN x ELSE y

\* the length of the longest common run a[i..], b[j..] of at most lim characters
RunUpTo(a, b, i, j, lim) ==
    CHOOSE k \in 0..lim :
        /\ \A m \in 0..(k - 1) : a[i + m] = b[j + m]
        /\ k = lim \/ a[i + k] # b[j + k]

\* the length of the matching block that starts at a[i], b[j] within the ranges
BlockLen(a, b, i, j, ahi, bhi) ==
    IF a[i] # b[j] THEN 0 ELSE RunUpTo(a, b, i, j, Min2(ahi - i, bhi - j) + 1)

\* bestsize of find_longest_match
BestSize(a, b, alo, ahi, blo, bhi) ==
    CHOOSE k \in 0..(ahi - alo + 1) :
        /\ \A i \in alo..ahi : \A j \in blo..bhi : BlockLen(a, b, i, j, ahi, bhi) <= k
        /\ k = 0 \/ \E i \in alo..ahi : \E j \in blo..bhi : BlockLen(a, b, i, j, ahi, bhi) = k

\* besti of find_longest_match: the longest block that starts earliest in a
BestI(a, b, alo, ahi, blo, bhi, k) ==
    CHOOSE i \in alo..ahi :
        /\ \E j \in blo..bhi : BlockLen(a, b, i, j, ahi, bhi) = k
        /\ \A h \in alo..(i - 1) : \A j \in blo..bhi : BlockLen(a, b, h, j, ahi, bhi) # k

\* bestj of find_longest_match: of those, the one that starts earliest in b
BestJ(a, b, i, ahi, blo, bhi, k) ==
    CHOOSE j \in blo..bhi :
        /\ BlockLen(a, b, i, j, ahi, bhi) = k
        /\ \A h \in blo..(j - 1) : BlockLen(a, b, i, h, ahi, bhi) # k

RECURSIVE Matches(_, _, _, _, _, _)
RECURSIVE MatchesAround(_, _, _, _, _, _, _, _)
RECURSIVE MatchesBeside(_, _, _, _, _, _, _, _, _)
\* get_matching_blocks: the matched characters left and right of block (i, j, k)
MatchesBeside(a, b, alo, ahi, blo, bhi, i, j, k) ==
    k + Matches(a, b, alo, i - 1, blo, j - 1) + Matches(a, b, i + k, ahi, j + k, bhi)

MatchesAround(a, b, alo, ahi, blo, bhi, k, i) ==
    MatchesBeside(a, b, alo, ahi, blo, bhi, i, BestJ(a, b, i, ahi, blo, bhi, k), k)

\* get_matching_blocks: the sum of the sizes of the matching blocks
Matches(a, b, alo, ahi, blo, bhi) ==
    IF alo > ahi \/ blo > bhi THEN 0
    ELSE IF BestSize(a, b, alo, ahi, blo, bhi) = 0 THEN 0
    ELSE MatchesAround(a, b, alo, ahi, blo, bhi, BestSize(a, b, alo, ahi, blo, bhi),
                       BestI(a, b, alo, ahi, blo, bhi, BestSize(a, b, alo, ahi, blo, bhi)))

\* SequenceMatcher(None, a, b).ratio()
Ratio(a, b) ==
    IF Len(a) + Len(b) = 0 THEN Frac(1, 1)
    ELSE Frac(2 * Matches(a, b, 1, Len(a), 1, Len(b)), Len(a) + Len(b))

(***************************************************************************)
(* resolve_intent and its helpers.                                         *)
(***************************************************************************)
ResolvedIntent(kind, builtin_key, inferred_type, anchors, match_strategy, confidence) ==
    [kind |-> kind, builtin_key |-> builtin_key, inferred_type |-> inferred_type,
     anchors |-> anchors, match_strategy |-> match_strategy, confidence |-> confidence]

\* the label of the first builtin field whose key is builtin_key, else ""
BuiltinLabel(builtin_key, builtin_fields) ==
    IF \E n \in 1..Len(builtin_fields) : builtin_fields[n][1] = builtin_key
    THEN builtin_fields[CHOOSE n \in 1..Len(builtin_fields) :
                            /\ builtin_fields[n][1] = builtin_key
                            /\ \A m \in 1..(n - 1) : builtin_fields[m][1] # builtin_key][2]
    ELSE <<>>

\* the synonyms of builtin_key, in the order of SYNONYM_MAP
SynonymsOf(builtin_key) ==
    SelectSeq([n \in 1..Len(SYNONYM_MAP) |->
                  IF SYNONYM_MAP[n][2] = builtin_key THEN SYNONYM_MAP[n][1] ELSE <<>>],
              LAMBDA synonym : synonym # <<>>)

\* the last loop of _build_anchors: drop anchors that normalize to nothing
\* or to what an earlier anchor normalizes to
UniqueAnchors(anchors, norms) ==
    [k \in 1..Len(SelectSeq([n \in 1..Len(anchors) |-> n],
                            LAMBDA n : norms[n] # <<>>
                                       /\ \A m \in 1..(n - 1) : norms[m] # norms[n])) |->
        anchors[SelectSeq([n \in 1..Len(anchors) |-> n],
                          LAMBDA n : norms[n] # <<>>
                                     /\ \A m \in 1..(n - 1) : norms[m] # norms[n])[k]]]

\* [x] if x else []
IfNonEmpty(x) == IF x # <<>> THEN <<x>> ELSE <<>>

\* the anchors of _build_anchors before the duplicates are dropped
AllAnchors(label, builtin_key, builtin_fields) ==
    IfNonEmpty(Strip(label)) \o IfNonEmpty(BuiltinLabel(builtin_key, builtin_fields))
    \o SynonymsOf(builtin_key)

NormalizedAll(anchors) == [n \in 1..Len(anchors) |-> NormalizeLabel(anchors[n])]

\* anchors from which nothing is dropped
UniqueOfNothingDropped(anchors) == anchors

UniqueOf(anchors) == UniqueAnchors(anchors, NormalizedAll(anchors))

\* _build_anchors(label, builtin_key, builtin_fields)
BuildAnchors(label, builtin_key, builtin_fields) ==
    SubSeq(UniqueOf(AllAnchors(label, builtin_key, builtin_fields)), 1,
           Len(UniqueOf(AllAnchors(label, builtin_key, builtin_fields))))

\* normalized in exact_lookup
InExactLookup(candidates, normalized) ==
    \E n \in 1..Len(candidates) : candidates[n][1] = normalized

\* exact_lookup[normalized]: the dict keeps, for each candidate string, the
\* entry written last
ExactLookup(candidates, normalized) ==
    candidates[CHOOSE n \in 1..Len(candidates) :
                   /\ candidates[n][1] = normalized
                   /\ \A m \in (n + 1)..Len(candidates) : candidates[m][1] # normalized]

\* the scores the fuzzy loop computes, one for each candidate
Scores(candidates, normalized) ==
    [n \in 1..Len(candidates) |-> Ratio(normalized, candidates[n][1])]

\* a fuzzy loop that replaces the best candidate on an equal score: the last
\* of the highest score
BestIndexOfLast(scores) ==
    IF \A n \in 1..Len(scores) : scores[n].num = 0 THEN 0
    ELSE CHOOSE n \in 1..Len(scores) :
             /\ \A m \in 1..Len(scores) : ~Greater(scores[m], scores[n])
             /\ \A m \in (n + 1)..Len(scores) : Greater(scores[n], scores[m])

\* the candidate the fuzzy loop ends on: the first of the highest score, or 0
\* when no score is above the initial 0.0
BestIndex(scores) ==
    IF \A n \in 1..Len(scores) : scores[n].num = 0 THEN 0
    ELSE CHOOSE n \in 1..Len(scores) :
             /\ \A m \in 1..Len(scores) : ~Greater(scores[m], scores[n])
             /\ \A m \in 1..(n - 1) : Greater(scores[n], scores[m])

\* a score strictly above the threshold
AboveThreshold(score) == score.num * 100 > FUZZY_THRESHOLD * score.den
\* best_score >= FUZZY_THRESHOLD
AtLeastThreshold(score) == score.num * 100 >= FUZZY_THRESHOLD * score.den

\* resolve_intent_with_llm(label)
resolve_intent_with_llm(label) == None

\* a custom intent anchored on the label as it was given
CustomIntentUnstripped(label, normalized) ==
    ResolvedIntent("custom", <<>>, InferType(normalized, <<>>), IfNonEmpty(label),
                   "custom", Frac(0, 1))
\* the final return of resolve_intent
CustomIntent(label, normalized) ==
    ResolvedIntent("custom", <<>>, InferType(normalized, <<>>), IfNonEmpty(Strip(label)),
                   "custom", Frac(0, 1))

\* resolve_intent after the fuzzy loop found nothing
Fallback(label, normalized, allow_llm) ==
    IF allow_llm /\ resolve_intent_with_llm(label) # None
    THEN resolve_intent_with_llm(label)
    ELSE CustomIntent(label, normalized)

\* resolve_intent from the exact lookup's hit
ExactIntent(label, normalized, builtin_fields, hit) ==
    ResolvedIntent("builtin", hit[2], InferType(normalized, hit[2]),
                   BuildAnchors(label, hit[2], builtin_fields), hit[3], Frac(1, 1))

\* resolve_intent after the fuzzy loop, which ended on candidate best
FuzzyIntent(label, normalized, builtin_fields, allow_llm, candidates, scores, best) ==
    IF best # 0 /\ candidates[best][2] # <<>> /\ AtLeastThreshold(scores[best])
    THEN ResolvedIntent("builtin", candidates[best][2],
                        InferType(normalized, candidates[best][2]),
                        BuildAnchors(label, candidates[best][2], builtin_fields),
                        "fuzzy", scores[best])
    ELSE Fallback(label, normalized, allow_llm)

FuzzyOf(label, normalized, builtin_fields, allow_llm, candidates, scores) ==
    FuzzyIntent(label, normalized, builtin_fields, allow_llm, candidates, scores,
                BestIndex(scores))

\* resolve_intent once the candidates are built
ResolveAmong(label, normalized, builtin_fields, allow_llm, candidates) ==
    IF InExactLookup(candidates, normalized)
    THEN ExactIntent(label, normalized, builtin_fields, ExactLookup(candidates, normalized))
    ELSE FuzzyOf(label, normalized, builtin_fields, allow_llm, candidates,
                 Scores(candidates, normalized))

ResolveNormalized(label, normalized, builtin_fields, allow_llm) ==
    IF normalized = <<>>
    THEN ResolvedIntent("custom", <<>>, "text", <<>>, "empty", Frac(0, 1))
    ELSE ResolveAmong(label, normalized, builtin_fields, allow_llm,
                      BuildBuiltinCandidates(builtin_fields))

\* resolve_intent(label, builtin_fields, allow_llm)
resolve_intent(label, builtin_fields, allow_llm) ==
    ResolveNormalized(label, NormalizeLabel(label), builtin_fields, allow_llm)

(***************************************************************************)
(* The labels and the builtin field registries the resolver is called on.  *)
(***************************************************************************)
Labels ==
    { Chars("Data de Vencimento"), Chars("data do vencimento"), Chars("Vencimento"),
      Chars("due_date"), Chars("VALOR"), Chars("valores"), Chars("  Valor \t Total "),
      Chars("Total a Pagar"), Chars("barcodx"), Chars("cnpj"), Chars("Nome do Cliente"),
      Chars(" foo "), Chars("CEP"), Chars(""), Chars("   "),
      Chars("numero de registro fi9999"), Chars("Numero de Registro Fiscal"),
      Chars("Endere") \o <<"U+00E7">> \o Chars("o"),
      Chars("ENDERE") \o <<"U+00C7">> \o Chars("O DE COBRAN") \o <<"U+00C7">> \o Chars("A"),
      Chars("Pre") \o <<"U+00E7">> \o Chars("o  unit") \o <<"U+00E9">> \o Chars("rio"),
      Chars("Telefone 3"), Chars("Campo Especial"), Chars("Data do CNPJ"),
      Chars("cpf na linha") }

\* a builtin field of the registry: a key and a label
BuiltinField(key, label) == <<Chars(key), Chars(label)>>

Registries ==
    { <<>>,
      << BuiltinField("due_date", "Data de Vencimento") >>,
      << BuiltinField("due_date", "Vencimento"), BuiltinField("document_value", "Valor do Documento"),
         BuiltinField("cnpj", "CNPJ"), BuiltinField("tax_id", "Numero de Registro Fiscal") >>,
      << BuiltinField("document_value", "Valor Total"), BuiltinField("total_due", "Total a Pagar") >>,
      << BuiltinField("payee_phone", "Telefone 1"), BuiltinField("payer_phone", "Telefone 2") >>,
      << BuiltinField("", "Campo Especial") >> }

NpIdle ==
    /\ np_payload = NotCalled
    /\ np_result = NotCalled
    /\ np_prev = NotCalled
    /\ np_round = 0
    /\ np_pc = "idle"

RiInit ==
    /\ ri_label \in Labels
    /\ ri_fields \in Registries
    /\ ri_allow_llm \in BOOLEAN
    /\ ri_result = NotCalled
    /\ ri_pc = "call"

\* a call of resolve_intent
ResolveIntent ==
    /\ ri_pc = "call"
    /\ ri_result' = resolve_intent(ri_label, ri_fields, ri_allow_llm)
    /\ ri_pc' = "returned"
    /\ UNCHANGED <<ri_label, ri_fields, ri_allow_llm, np_vars, sf_vars, ap_vars, tk_vars>>

RiNext == ResolveIntent

InitIntent == NpIdle /\ RiInit /\ SfIdle /\ ApIdle /\ TkIdle

SpecIntent == InitIntent /\ [][RiNext]_vars

(***************************************************************************)
(* documents/ai_filters.py: the semantic filters.  A document is a record  *)
(* of the attributes the filters read, each a Python value.                *)
(***************************************************************************)
\* _normalize_for_match(value), as migration 0010 defines it
NormalizeForMatch(value) ==
    Lower(Strip(CollapseSpaces(WithoutCombining(NFKD(value, 1, Len(value))))))

\* _as_dict(value)
AsDict(value) == IF IsDict(value) THEN value ELSE PyDict(<<>>)

\* _as_list(value): the elements
AsList(value) == IF IsList(value) THEN value.l ELSE <<>>

\* _safe_int after parsed = int(value): only TypeError and ValueError are
\* caught, then the range check
SafeIntChecked(parsed, min_value, max_value) ==
    IF IsRaise(parsed)
    THEN (IF parsed.exc \in {"TypeError", "ValueError"} THEN None ELSE parsed)
    ELSE IF IsBigInt(parsed) THEN None
    ELSE IF parsed.i < min_value \/ parsed.i > max_value THEN None
    ELSE parsed

\* _safe_int(value, min_value=..., max_value=...)
SafeInt(value, min_value, max_value) ==
    IF value = None THEN None ELSE SafeIntChecked(IntOf(value), min_value, max_value)

\* get_ai_payload(doc) for a document object
get_ai_payload(doc) == AsDict(Get(AsDict(doc.extracted_json), "ai"))

\* ai_value if it is not None, else the heuristic field's value
AiOr(ai_value, heuristic_value) ==
    IF ai_value # None THEN ai_value ELSE heuristic_value

\* resolve_experience_years(doc)
resolve_experience_years(doc) ==
    AiOr(SafeInt(Get(AsDict(Get(get_ai_payload(doc), "experience")), "years_estimate"),
                 0, 60),
         SafeInt(doc.extracted_experience_years, 0, 60))

\* resolve_age_years(doc)
resolve_age_years(doc) ==
    AiOr(SafeInt(Get(AsDict(Get(get_ai_payload(doc), "person")), "age_estimate_years"),
                 0, 120),
         SafeInt(doc.extracted_age_years, 0, 120))

\* a minimum check that rejects a value equal to the bound
BelowMinInclusive(value, min_years, exclude_unknowns) ==
    /\ min_years # None
    /\ IF value = None THEN exclude_unknowns ELSE value.i <= min_years.i

\* a minimum check of document_passes_ranges returns False
BelowMin(value, min_years, exclude_unknowns) ==
    /\ min_years # None
    /\ IF value = None THEN exclude_unknowns ELSE value.i < min_years.i

\* a maximum check of document_passes_ranges returns False
AboveMax(value, max_years, exclude_unknowns) ==
    /\ max_years # None
    /\ IF value = None THEN exclude_unknowns ELSE value.i > max_years.i

\* document_passes_ranges once both values are resolved
PassesRanges(experience_value, age_value, bounds, exclude_unknowns) ==
    IF IsRaise(experience_value) THEN experience_value
    ELSE IF IsRaise(age_value) THEN age_value
    ELSE PyBool(/\ ~BelowMin(experience_value, bounds.experience_min_years, exclude_unknowns)
                /\ ~AboveMax(experience_value, bounds.experience_max_years, exclude_unknowns)
                /\ ~BelowMin(age_value, bounds.age_min_years, exclude_unknowns)
                /\ ~AboveMax(age_value, bounds.age_max_years, exclude_unknowns))

\* document_passes_ranges(doc, experience_min_years=..., ..., exclude_unknowns=...)
document_passes_ranges(doc, bounds, exclude_unknowns) ==
    PassesRanges(resolve_experience_years(doc), resolve_age_years(doc), bounds,
                 exclude_unknowns)

RECURSIVE Flatten(_, _, _)
\* the concatenation of the sequences seqs[lo..hi]
Flatten(seqs, lo, hi) ==
    IF lo > hi THEN <<>>
    ELSE IF lo = hi THEN seqs[lo]
    ELSE Flatten(seqs, lo, (lo + hi) \div 2) \o Flatten(seqs, ((lo + hi) \div 2) + 1, hi)

\* if value: yield value
Yield(value) == IF value # <<>> THEN <<value>> ELSE <<>>

\* the chunks of the keys of one dict, each cleaned to 220 characters
KeyChunks(data, keys) ==
    Flatten([n \in 1..Len(keys) |-> Yield(CleanText(Get(data, keys[n]), 220))],
            1, Len(keys))

\* the chunks of one list of strings, each cleaned to 120 characters
ListChunks(values) ==
    Flatten([n \in 1..Len(values) |-> Yield(CleanText(values[n], 120))], 1, Len(values))

\* the chunks of a list of dicts, the keys of each in order
EntryChunks(entries, keys) ==
    Flatten([n \in 1..Len(entries) |-> KeyChunks(AsDict(entries[n]), keys)],
            1, Len(entries))

\* yield str(years_estimate) unless it is None
YearsChunk(years_estimate) ==
    IF years_estimate # None THEN <<StrOf(years_estimate)>> ELSE <<>>

\* the chunks of the person section
PersonChunks(person) ==
    KeyChunks(person, <<"name", "location", "age_evidence">>)
    \o ListChunks(AsList(Get(person, "emails")))
    \o ListChunks(AsList(Get(person, "phones")))

\* the chunks of the experience section
ExperienceChunks(experience) ==
    KeyChunks(experience, <<"seniority", "years_evidence">>)
    \o YearsChunk(Get(experience, "years_estimate"))
    \o ListChunks(AsList(Get(experience, "roles")))
    \o ListChunks(AsList(Get(experience, "companies")))

\* _iter_search_chunks(ai_payload): the chunks it yields, in order
IterSearchChunks(ai_payload) ==
    IF ai_payload.items = <<>> THEN <<>>
    ELSE Yield(CleanText(Get(ai_payload, "doc_type"), 80))
         \o PersonChunks(AsDict(Get(ai_payload, "person")))
         \o ExperienceChunks(AsDict(Get(ai_payload, "experience")))
         \o EntryChunks(AsList(Get(ai_payload, "skills")), <<"name", "level", "evidence">>)
         \o EntryChunks(AsList(Get(ai_payload, "education")),
                        <<"degree", "institution", "evidence">>)
         \o EntryChunks(AsList(Get(ai_payload, "keywords_evidence")), <<"term", "evidence">>)

\* the chunks build_ai_search_blob keeps: not empty, and not seen before
KeptChunks(normalized) ==
    SelectSeq([n \in 1..Len(normalized) |->
                  IF \E m \in 1..(n - 1) : normalized[m] = normalized[n]
                  THEN <<>> ELSE normalized[n]],
              LAMBDA chunk : chunk # <<>>)

\* " ".join(chunks)
JoinSpace(chunks) ==
    Flatten([n \in 1..Len(chunks) |-> IF n = 1 THEN chunks[n] ELSE <<" ">> \o chunks[n]],
            1, Len(chunks))

\* the chunks, each normalized for matching
NormalizedChunks(chunks) == [n \in 1..Len(chunks) |-> NormalizeForMatch(chunks[n])]

\* build_ai_search_blob(ai_payload)
build_ai_search_blob(ai_payload) ==
    JoinSpace(KeptChunks(NormalizedChunks(IterSearchChunks(AsDict(ai_payload)))))

\* text_content or extracted_text or ""
RawText(doc) ==
    IF doc.text_content.s # <<>> THEN doc.text_content.s ELSE doc.extracted_text.s

\* the text blob of _build_document_blob, given the cleaned text_content_norm
TextBlob(doc, text_blob) ==
    IF text_blob # <<>> THEN text_blob ELSE NormalizeForMatch(RawText(doc))

\* the blobs joined the other way round
JoinBlobsTextFirst(ai_blob, text_blob) ==
    IF ai_blob # <<>> /\ text_blob # <<>> THEN text_blob \o <<" ">> \o ai_blob
    ELSE IF ai_blob # <<>> THEN ai_blob ELSE text_blob

\* the return of _build_document_blob
JoinBlobs(ai_blob, text_blob) ==
    IF ai_blob # <<>> /\ text_blob # <<>> THEN ai_blob \o <<" ">> \o text_blob
    ELSE IF ai_blob # <<>> THEN ai_blob ELSE text_blob

\* _build_document_blob(doc)
BuildDocumentBlob(doc) ==
    JoinBlobs(build_ai_search_blob(get_ai_payload(doc)),
              TextBlob(doc, CleanText(doc.text_content_norm, 0)))

\* any(term in blob for term in terms)
AnyTermIn(terms, blob) == \E n \in 1..Len(terms) : Contains(blob, terms[n])

\* all(term in blob for term in terms)
AllTermsIn(terms, blob) == \A n \in 1..Len(terms) : Contains(blob, terms[n])

\* the term check with every mode read as "all"
MatchesTermsAllOnly(blob, terms, mode) ==
    IF blob = <<>> THEN FALSE ELSE AllTermsIn(terms, blob)

\* document_matches_terms once the blob is built
MatchesTerms(blob, terms, mode) ==
    IF blob = <<>> THEN FALSE
    ELSE IF mode = "any" THEN AnyTermIn(terms, blob)
    ELSE AllTermsIn(terms, blob)

\* document_matches_terms(doc, terms, mode=...)
document_matches_terms(doc, terms, mode) ==
    IF terms = <<>> THEN TRUE ELSE MatchesTerms(BuildDocumentBlob(doc), terms, mode)

\* document_matches_excludes once the blob is built
MatchesExcludes(blob, exclude_terms) ==
    IF blob = <<>> THEN FALSE ELSE AnyTermIn(exclude_terms, blob)

\* document_matches_excludes(doc, exclude_terms)
document_matches_excludes(doc, exclude_terms) ==
    IF exclude_terms = <<>> THEN FALSE
    ELSE MatchesExcludes(BuildDocumentBlob(doc), exclude_terms)

\* the filters without the exclusion check
PassesWithoutExcludes(doc, terms, mode, exclude_terms, bounds, exclude_unknowns) ==
    IF ~document_matches_terms(doc, terms, mode) THEN PyBool(FALSE)
    ELSE document_passes_ranges(doc, bounds, exclude_unknowns)

\* document_passes_semantic_filters(doc, terms=..., ..., exclude_unknowns=...)
document_passes_semantic_filters(doc, terms, mode, exclude_terms, bounds, exclude_unknowns) ==
    IF ~document_matches_terms(doc, terms, mode) THEN PyBool(FALSE)
    ELSE IF document_matches_excludes(doc, exclude_terms) THEN PyBool(FALSE)
    ELSE document_passes_ranges(doc, bounds, exclude_unknowns)

\* bool(value)
Truthy(value) ==
    IF value = None THEN FALSE
    ELSE IF value.t = "bool" THEN value.b
    ELSE IF IsSmallInt(value) THEN value.i # 0
    ELSE IF IsFinite(value) THEN value.mant # 0
    ELSE IF value.t = "str" THEN value.s # <<>>
    ELSE IF IsList(value) THEN value.l # <<>>
    ELSE IF IsDict(value) THEN value.items # <<>>
    ELSE TRUE

\* value or default
Or(value, default) == IF Truthy(value) THEN value ELSE default

\* the entry _append adds for a cleaned label and a cleaned evidence
IndexEntry(label_text, evidence_text) ==
    IF NormalizeForMatch(label_text \o <<" ">> \o evidence_text) = <<>> THEN <<>>
    ELSE << <<NormalizeForMatch(label_text \o <<" ">> \o evidence_text), evidence_text>> >>

\* _append(label, evidence): the entries it adds, none or one
AppendEntry(label, evidence) ==
    IF CleanText(evidence, 300) = <<>> THEN <<>>
    ELSE IndexEntry(CleanText(label, 180), CleanText(evidence, 300))

\* the entry of the experience section
ExperienceEntries(experience) ==
    AppendEntry(PyStr(Chars("experience ") \o StrOf(Get(experience, "seniority"))),
           Get(experience, "years_evidence"))

\* the entry of the person section
AgeEntries(person) == AppendEntry(PyStr(Chars("age person")), Get(person, "age_evidence"))

\* the entries of a list whose items are labelled by one of their keys
LabelledEntries(items, key, default) ==
    Flatten([n \in 1..Len(items) |->
                AppendEntry(Or(Get(AsDict(items[n]), key), PyStr(Chars(default))),
                       Get(AsDict(items[n]), "evidence"))],
            1, Len(items))

\* f"{degree or ''} {institution or ''}".strip() or "education"
EducationLabel(entry) ==
    Or(PyStr(Strip(StrOf(Or(Get(entry, "degree"), PyStr(<<>>))) \o <<" ">>
                   \o StrOf(Or(Get(entry, "institution"), PyStr(<<>>))))),
       PyStr(Chars("education")))

\* the entries of the education list
EducationEntries(items) ==
    Flatten([n \in 1..Len(items) |->
                AppendEntry(EducationLabel(AsDict(items[n])), Get(AsDict(items[n]), "evidence"))],
            1, Len(items))

\* the index with the skills put before the keyword evidence
BuildEvidenceIndexSkillsFirst(ai_payload) ==
    ExperienceEntries(AsDict(Get(ai_payload, "experience")))
    \o AgeEntries(AsDict(Get(ai_payload, "person")))
    \o LabelledEntries(AsList(Get(ai_payload, "skills")), "name", "skill")
    \o LabelledEntries(AsList(Get(ai_payload, "keywords_evidence")), "term", "keyword")
    \o EducationEntries(AsList(Get(ai_payload, "education")))

\* _build_evidence_index(ai_payload): a list of <<searchable, evidence>>
BuildEvidenceIndex(ai_payload) ==
    ExperienceEntries(AsDict(Get(ai_payload, "experience")))
    \o AgeEntries(AsDict(Get(ai_payload, "person")))
    \o LabelledEntries(AsList(Get(ai_payload, "keywords_evidence")), "term", "keyword")
    \o LabelledEntries(AsList(Get(ai_payload, "skills")), "name", "skill")
    \o EducationEntries(AsList(Get(ai_payload, "education")))

\* text[:stop], for a stop of either sign
SliceTo(text, stop) ==
    IF stop >= 0 THEN Prefix(text, stop)
    ELSE IF Len(text) + stop > 0 THEN Prefix(text, Len(text) + stop)
    ELSE <<>>

\* max(a, b)
Max2(a, b) == IF a > b THEN a ELSE b

\* the end of _truncate, given the cleaned text
TruncateClean(clean, max_len) ==
    IF Len(clean) <= max_len THEN clean
    ELSE RStrip(SliceTo(clean, max_len - 3)) \o Chars("...")

\* _truncate(text, max_len=...)
Truncate(text, max_len) ==
    TruncateClean(CleanText(PyStr(text), Max2(max_len * 4, max_len)), max_len)

\* the search with the two loops exchanged: the first entry that holds a term
FirstMatchEntryMajor(evidence_index, terms) ==
    IF \E k \in 1..Len(evidence_index) : AnyTermIn(terms, evidence_index[k][1])
    THEN CHOOSE k \in 1..Len(evidence_index) :
             /\ AnyTermIn(terms, evidence_index[k][1])
             /\ \A j \in 1..(k - 1) : ~AnyTermIn(terms, evidence_index[j][1])
    ELSE 0

\* the loops of find_evidence_snippet: the position of the entry they
\* return on, or 0 when they end without returning
FirstMatch(evidence_index, terms) ==
    IF \E n \in 1..Len(terms) : \E k \in 1..Len(evidence_index) :
           Contains(evidence_index[k][1], terms[n])
    THEN CHOOSE k \in 1..Len(evidence_index) :
             \E n \in 1..Len(terms) :
                 /\ Contains(evidence_index[k][1], terms[n])
                 /\ \A j \in 1..(k - 1) : ~Contains(evidence_index[j][1], terms[n])
                 /\ \A m \in 1..(n - 1) : \A j \in 1..Len(evidence_index) :
                        ~Contains(evidence_index[j][1], terms[m])
    ELSE 0

\* find_evidence_snippet after the loops
SnippetAt(evidence_index, match, max_len, use_first_if_no_term) ==
    IF match # 0 THEN Truncate(evidence_index[match][2], max_len)
    ELSE IF use_first_if_no_term THEN Truncate(evidence_index[1][2], max_len)
    ELSE <<>>

\* find_evidence_snippet once the index is built
SnippetOf(evidence_index, terms, max_len, use_first_if_no_term) ==
    IF evidence_index = <<>> THEN <<>>
    ELSE SnippetAt(evidence_index, FirstMatch(evidence_index, terms), max_len,
                   use_first_if_no_term)

\* find_evidence_snippet(doc, terms, max_len=..., use_first_if_no_term=...)
find_evidence_snippet(doc, terms, max_len, use_first_if_no_term) ==
    IF get_ai_payload(doc).items = <<>> THEN <<>>
    ELSE SnippetOf(BuildEvidenceIndex(get_ai_payload(doc)), terms, max_len,
                   use_first_if_no_term)

(***************************************************************************)
(* The documents and the arguments the filters are called on.              *)
(***************************************************************************)
Text(s) == PyStr(Chars(s))

\* a document whose extracted_json holds the AI payload ai (Absent: no "ai")
Doc(ai, text_content_norm, text_content, extracted_text, age, experience) ==
    [extracted_json |-> IF ai = Absent THEN PyDict(<<>>) ELSE One("ai", ai),
     text_content_norm |-> text_content_norm, text_content |-> text_content,
     extracted_text |-> extracted_text, extracted_age_years |-> age,
     extracted_experience_years |-> experience]

\* the AI payload of the tests of documents/tests/test_ai_filters.py
AiPayload(years, years_evidence, seniority, roles, skills, education, keywords, age,
          age_evidence) ==
    PyDict(<<
        <<"doc_type", Text("curriculo")>>,
        <<"person", PyDict(<<
            <<"name", None>>, <<"emails", PyList(<<>>)>>, <<"phones", PyList(<<>>)>>,
            <<"location", None>>, <<"age_estimate_years", age>>,
            <<"age_evidence", age_evidence>> >>)>>,
        <<"experience", PyDict(<<
            <<"years_estimate", years>>, <<"years_evidence", years_evidence>>,
            <<"seniority", seniority>>, <<"roles", PyList(roles)>>,
            <<"companies", PyList(<< Text("Empresa X") >>)>> >>)>>,
        <<"skills", PyList(skills)>>,
        <<"education", PyList(education)>>,
        <<"keywords_evidence", PyList(keywords)>>,
        <<"confidence", PyDict(<< <<"overall", PyFloat(8, 1)>> >>)>> >>)

Skill(name, level, evidence) ==
    PyDict(<< <<"name", name>>, <<"level", level>>, <<"evidence", evidence>> >>)

Education(degree, institution, evidence) ==
    PyDict(<< <<"degree", degree>>, <<"institution", institution>>,
              <<"evidence", evidence>> >>)

Keyword(term, evidence) == PyDict(<< <<"term", term>>, <<"evidence", evidence>> >>)

\* test_terms_use_ai_payload_even_when_raw_text_does_not_match
AiTerms ==
    AiPayload(PyInt(5), Text("Atuou de 2019 a 2024 com backend."), Text("pleno"),
              << Text("Desenvolvedor Backend") >>,
              << Skill(Text("FastAPI"), Text("advanced"),
                       Text("Projetos com FastAPI e Docker.")) >>,
              <<>>, <<>>, None, None)

\* test_evidence_snippet_prioritizes_matching_term
AiSnippet ==
    AiPayload(PyInt(4), Text("Atuacao com APIs."), Text("pleno"), <<>>,
              << Skill(Text("Docker"), Text("advanced"),
                       Text("Experiencia forte com Docker e Kubernetes.")) >>,
              <<>>, <<>>, None, None)

\* a payload with evidence in every section, accents and repeated chunks
AiFull ==
    AiPayload(PyInt(7), Text("Sete anos  com Java e APIs."), None,
              << Text("Backend"), Text("backend") >>,
              << Skill(Text("Docker"), Text("advanced"),
                       Text("Experiencia forte com Docker e Kubernetes.")),
                 Skill(None, None, Text("Usa Java em producao.")),
                 Skill(Text("Go"), None, None) >>,
              << Education(Text("Bacharel"), None,
                           PyStr(Chars("T") \o <<"U+00E9">> \o Chars("cnico em Java pela USP."))),
                 Education(None, None, Text("Curso de Docker.")) >>,
              << Keyword(Text("Python"), Text("Usa Python e Docker diariamente.")),
                 Keyword(PyInt(0), PyStr(Chars("Servi") \o <<"U+00E7">> \o Chars("o em nuvem."))) >>,
              PyInt(34), Text("Nascido em 1990."))

\* a payload whose only evidence is long
AiLong ==
    PyDict(<< <<"skills", PyList(<< Skill(Text("Rust"), None, LongText) >>)>> >>)

\* test_exclude_unknowns_blocks_missing_values
AiBare == PyDict(<< <<"person", PyDict(<<>>)>>, <<"experience", PyDict(<<>>)>> >>)

\* an AI payload that holds the two estimates only
AiYears(years, age) ==
    PyDict(<< <<"person", One("age_estimate_years", age)>>,
              <<"experience", One("years_estimate", years)>> >>)

\* the documents of the text filters
TextDocs ==
    { Doc(AiTerms, Text("curriculo profissional"), Text(""), Text(""), None, None),
      Doc(AiSnippet, Text(""), Text(""), Text(""), None, PyInt(1)),
      Doc(AiFull, Text(""), Text(""), Text("Texto  extraido\n com COBOL"), None, None),
      Doc(AiLong, Text(""), Text(""), Text(""), None, None),
      Doc(AiBare, Text(""), Text(""), Text(""), None, None),
      Doc(Absent, Text(""), PyStr(Chars("Curr") \o <<"U+00C9">> \o Chars("culo com  Docker")),
          Text("outro texto"), PyInt(30), PyInt(4)),
      Doc(Text("docker"), Text(" Texto   ja normalizado "), Text("Docker"), Text(""), None,
          None),
      Doc(Absent, Text(""), Text(""), Text(""), None, None) }

\* values stored as an estimate: absent, in range, out of range, not integers
EstimateSamples ==
    {None, PyInt(0), PyInt(6), PyInt(60), PyInt(61), PyInt(-1), PyInt(120), PyInt(121),
     PyFloat(37, 1), PyStr(Chars("6")), PyStr(Chars("seis")), PyBool(TRUE),
     PyBigInt(BigExp), PyInf}

\* values of the heuristic fields of a document
HeuristicSamples == {None, PyInt(1), PyInt(61), PyInt(130)}

\* the documents of the value resolution
ValueDocs ==
    {Doc(AiYears(v, v), Text(""), Text(""), Text(""), h, h) :
        v \in EstimateSamples, h \in HeuristicSamples}
    \cup {Doc(Absent, Text(""), Text(""), Text(""), h, h) : h \in HeuristicSamples}
    \cup {Doc(AiSnippet, Text(""), Text(""), Text(""), None, PyInt(1))}

\* the documents of the range filters
RangeDocs ==
    {Doc(AiYears(y, a), Text(""), Text(""), Text(""), ha, hy) :
        y \in {None, PyInt(6), PyFloat(37, 1), PyInf}, hy \in {None, PyInt(1)},
        a \in {None, PyInt(30)}, ha \in {None, PyInt(130)}}

Bounds(experience_min, experience_max, age_min, age_max) ==
    [experience_min_years |-> experience_min, experience_max_years |-> experience_max,
     age_min_years |-> age_min, age_max_years |-> age_max]

NoBounds == Bounds(None, None, None, None)

\* the bounds of the range filters
RangeBounds ==
    {Bounds(a, b, c, d) :
        a \in {None, PyInt(5), PyInt(6), PyInt(7)}, b \in {None, PyInt(5), PyInt(6)},
        c \in {None, PyInt(30), PyInt(31)}, d \in {None, PyInt(29)}}

\* the term lists of the filters; the callers pass normalized terms
TermLists ==
    { <<>>, << Chars("docker") >>, << Chars("docker"), Chars("java") >>,
      << Chars("cobol"), Chars("kubernetes") >>, << Chars("tecnico em java") >>,
      << Chars("") >>, << Chars("rust"), Chars("docker") >> }

ExcludeLists == { <<>>, << Chars("kubernetes") >>, << Chars("cobol"), Chars("java") >>,
                  << Chars("") >> }

\* the max_len arguments of find_evidence_snippet
MaxLens == {0, 1, 2, 3, 4, 10, 24, 120}

\* the documents of the combined filters
FilterDocs ==
    TextDocs
    \cup { Doc(AiYears(PyInt(6), None), Text(""), Text(""), Text("docker"), None, PyInt(1)),
           Doc(AiYears(PyInf, None), Text(""), Text(""), Text("docker"), None, PyInt(1)) }

\* the calls of the filters: the function and its arguments
FilterCalls ==
    {[op |-> "resolve_experience_years", doc |-> d] : d \in ValueDocs}
    \cup {[op |-> "resolve_age_years", doc |-> d] : d \in ValueDocs}
    \cup {[op |-> "document_passes_ranges", doc |-> d, bounds |-> b, exclude_unknowns |-> u] :
            d \in RangeDocs, b \in RangeBounds, u \in BOOLEAN}
    \cup {[op |-> "_build_document_blob", doc |-> d] : d \in TextDocs}
    \cup {[op |-> "document_matches_terms", doc |-> d, terms |-> t, mode |-> m] :
            d \in TextDocs, t \in TermLists, m \in {"all", "any", "every"}}
    \cup {[op |-> "document_passes_semantic_filters", doc |-> d, terms |-> t, mode |-> m,
           exclude_terms |-> x, bounds |-> b, exclude_unknowns |-> u] :
            d \in FilterDocs, t \in TermLists, m \in {"all", "any"}, x \in ExcludeLists,
            b \in {NoBounds, Bounds(PyInt(5), None, None, None),
                   Bounds(None, PyInt(3), None, PyInt(40))},
            u \in BOOLEAN}
    \cup {[op |-> "find_evidence_snippet", doc |-> d, terms |-> t, max_len |-> n,
           use_first_if_no_term |-> f] :
            d \in TextDocs, t \in TermLists, n \in MaxLens, f \in BOOLEAN}

SfInit ==
    /\ sf_call \in FilterCalls
    /\ sf_result = NotCalled
    /\ sf_pc = "call"

\* the call returns the given result
SfReturn(op, result) ==
    /\ sf_pc = "call"
    /\ sf_call.op = op
    /\ sf_result' = result
    /\ sf_pc' = "returned"
    /\ UNCHANGED <<sf_call, np_vars, ri_vars, ap_vars, tk_vars>>

ResolveExperienceYears ==
    SfReturn("resolve_experience_years", resolve_experience_years(sf_call.doc))

ResolveAgeYears == SfReturn("resolve_age_years", resolve_age_years(sf_call.doc))

DocumentPassesRanges ==
    SfReturn("document_passes_ranges",
             document_passes_ranges(sf_call.doc, sf_call.bounds, sf_call.exclude_unknowns))

BuildBlob == SfReturn("_build_document_blob", PyStr(BuildDocumentBlob(sf_call.doc)))

DocumentMatchesTerms ==
    SfReturn("document_matches_terms",
             PyBool(document_matches_terms(sf_call.doc, sf_call.terms, sf_call.mode)))

DocumentPassesSemanticFilters ==
    SfReturn("document_passes_semantic_filters",
             document_passes_semantic_filters(sf_call.doc, sf_call.terms, sf_call.mode,
                                              sf_call.exclude_terms, sf_call.bounds,
                                              sf_call.exclude_unknowns))

FindEvidenceSnippet ==
    SfReturn("find_evidence_snippet",
             PyStr(find_evidence_snippet(sf_call.doc, sf_call.terms, sf_call.max_len,
                                         sf_call.use_first_if_no_term)))

SfNext ==
    \/ ResolveExperienceYears
    \/ ResolveAgeYears
    \/ DocumentPassesRanges
    \/ BuildBlob
    \/ DocumentMatchesTerms
    \/ DocumentPassesSemanticFilters
    \/ FindEvidenceSnippet

InitFilter == NpIdle /\ RiIdle /\ SfInit /\ ApIdle /\ TkIdle

SpecFilter == InitFilter /\ [][SfNext]_vars

(***************************************************************************)
(* documents/processing.py: the field applier.  "U+0663" stands for the    *)
(* Arabic-Indic digit three, a decimal digit that is not an ASCII digit.   *)
(* A Decimal is sign, coefficient (its decimal digits, most significant    *)
(* first, no leading zero) and exponent; a date is year, month and day.    *)
(***************************************************************************)
\* a character the pattern \d matches
IsDecimalDigit(c) == IsDigit(c) \/ c = "U+0663"

\* _NON_DIGIT_RE.sub("", text): the characters \D does not match
WithoutNonDigits(text) == SelectSeq(text, IsDecimalDigit)

\* the digits kept whatever their number
NormalizeDigitsAnyLength(digits, max_len, exact_len) ==
    IF max_len # None /\ Len(digits) > max_len.i THEN Prefix(digits, max_len.i) ELSE digits

\* _normalize_digits once digits is computed; a limit that is not given is
\* None
NormalizeDigitsOf(digits, max_len, exact_len) ==
    IF digits = <<>> THEN <<>>
    ELSE IF exact_len # None /\ Len(digits) # exact_len.i THEN <<>>
    ELSE IF max_len # None /\ Len(digits) > max_len.i THEN Prefix(digits, max_len.i)
    ELSE digits

\* _normalize_digits(value, max_len=..., exact_len=...)
NormalizeDigits(value, max_len, exact_len) ==
    IF value = None THEN <<>>
    ELSE NormalizeDigitsOf(WithoutNonDigits(StrOf(value)), max_len, exact_len)

\* the end of _clean_text of processing.py: text[:max_len], not stripped
CutText(text, max_len) ==
    IF max_len # None /\ Len(text) > max_len.i THEN Prefix(text, max_len.i) ELSE text

\* _clean_text(value, max_len=...) of processing.py
ProcessingCleanText(value, max_len) ==
    IF value = None THEN <<>> ELSE CutText(Strip(SplitJoin(StrOf(value))), max_len)

\* Decimal values: finite, quiet NaN, signaling NaN, infinity
PyDecimal(sign, digits, exp) == [t |-> "Decimal", sign |-> sign, digits |-> digits, exp |-> exp]
DecimalNaN == [t |-> "Decimal NaN"]
DecimalSNaN == [t |-> "Decimal sNaN"]
DecimalInfinity == [t |-> "Decimal Infinity"]
IsDecimal(value) == value.t \in {"Decimal", "Decimal NaN", "Decimal sNaN", "Decimal Infinity"}

\* the digit a decimal digit character denotes
AsciiDigit(c) == IF c = "U+0663" THEN "3" ELSE c

\* the coefficient of a string of digits: ASCII, without leading zeros
Coefficient(digits) ==
    IF \A i \in 1..Len(digits) : AsciiDigit(digits[i]) = "0" THEN <<"0">>
    ELSE SubSeq([i \in 1..Len(digits) |-> AsciiDigit(digits[i])],
                CHOOSE i \in 1..Len(digits) :
                    /\ AsciiDigit(digits[i]) # "0"
                    /\ \A j \in 1..(i - 1) : AsciiDigit(digits[j]) = "0",
                Len(digits))

\* the position of the first c in text, 0 when there is none
IndexOf(text, c) ==
    IF \E i \in 1..Len(text) : text[i] = c
    THEN CHOOSE i \in 1..Len(text) : text[i] = c /\ \A j \in 1..(i - 1) : text[j] # c
    ELSE 0

\* text is a non-empty string of decimal digits
AllDecimalDigits(text) == text # <<>> /\ \A i \in 1..Len(text) : IsDecimalDigit(text[i])

\* an exponent: an optional sign and digits
IsExponent(text) ==
    /\ text # <<>>
    /\ AllDecimalDigits(IF text[1] \in {"+", "-"} THEN Tail(text) ELSE text)

\* the integer an exponent denotes
ExponentOf(text) ==
    IF text[1] = "-" THEN 0 - NatOfDigits(Coefficient(Tail(text)))
    ELSE IF text[1] = "+" THEN NatOfDigits(Coefficient(Tail(text)))
    ELSE NatOfDigits(Coefficient(text))

\* a mantissa: digits with at most one point among them
IsMantissa(text) ==
    /\ \E i \in 1..Len(text) : IsDecimalDigit(text[i])
    /\ \A i \in 1..Len(text) : IsDecimalDigit(text[i]) \/ text[i] = "."
    /\ \A i, j \in 1..Len(text) : (text[i] = "." /\ text[j] = ".") => i = j

\* the number of digits after the point of a mantissa
FractionLen(mantissa) ==
    IF IndexOf(mantissa, ".") = 0 THEN 0 ELSE Len(mantissa) - IndexOf(mantissa, ".")

\* Decimal(text) for an unsigned number: mantissa and exponent (none: "")
DecimalOfNumber(sign, mantissa, exponent, has_exponent) ==
    IF ~IsMantissa(mantissa) \/ (has_exponent /\ ~IsExponent(exponent))
    THEN Raise("InvalidOperation")
    ELSE PyDecimal(sign, Coefficient(SelectSeq(mantissa, IsDecimalDigit)),
                   (IF has_exponent THEN ExponentOf(exponent) ELSE 0) - FractionLen(mantissa))

\* Decimal(text) for lower-cased text without its sign
DecimalOfUnsigned(sign, body) ==
    IF body \in {Chars("inf"), Chars("infinity")} THEN DecimalInfinity
    ELSE IF body = Chars("nan") THEN DecimalNaN
    ELSE IF body = Chars("snan") THEN DecimalSNaN
    ELSE IF IndexOf(body, "e") = 0 THEN DecimalOfNumber(sign, body, <<>>, FALSE)
    ELSE DecimalOfNumber(sign, SubSeq(body, 1, IndexOf(body, "e") - 1),
                         SubSeq(body, IndexOf(body, "e") + 1, Len(body)), TRUE)

\* Decimal(text) for text stripped and without underscores
DecimalOfStripped(text) ==
    IF text = <<>> THEN Raise("InvalidOperation")
    ELSE IF text[1] = "-" THEN DecimalOfUnsigned(1, Lower(Tail(text)))
    ELSE IF text[1] = "+" THEN DecimalOfUnsigned(0, Lower(Tail(text)))
    ELSE DecimalOfUnsigned(0, Lower(text))

\* Decimal(text): surrounding whitespace and underscores are ignored
DecimalOfStr(text) == DecimalOfStripped(SelectSeq(Strip(text), LAMBDA c : c # "_"))

\* the precision of the default decimal context
DecimalPrecision == 28

\* a coefficient plus one
Incremented(digits) ==
    IF \A i \in 1..Len(digits) : digits[i] = "9"
    THEN <<"1">> \o [i \in 1..Len(digits) |-> "0"]
    ELSE [i \in 1..Len(digits) |->
             IF \E j \in (i + 1)..Len(digits) : digits[j] # "9" THEN digits[i]
             ELSE IF digits[i] = "9" THEN "0"
             ELSE Digits(DigitVal(digits[i]) + 1)[1]]

\* ROUND_HALF_EVEN: the dropped digits are above one half, or are one half
\* and the last kept digit is odd
RoundsUp(kept, dropped) ==
    /\ dropped # <<>>
    /\ \/ DigitVal(dropped[1]) > 5
       \/ /\ dropped[1] = "5"
          /\ \/ \E i \in 2..Len(dropped) : dropped[i] # "0"
             \/ DigitVal(kept[Len(kept)]) % 2 = 1

\* the coefficient rounded to its first Len(digits) - drop digits
Rounded(kept, dropped) == IF RoundsUp(kept, dropped) THEN Coefficient(Incremented(kept)) ELSE kept

\* the coefficient of a finite decimal at exponent -2
QuantizedDigits(digits, exp) ==
    IF digits = <<"0">> THEN <<"0">>
    ELSE IF exp >= -2 THEN digits \o [i \in 1..(exp + 2) |-> "0"]
    ELSE IF -2 - exp > Len(digits) THEN <<"0">>
    ELSE Rounded(<<"0">> \o SubSeq(digits, 1, Len(digits) + 2 + exp),
                 SubSeq(digits, Len(digits) + 3 + exp, Len(digits)))

\* value.quantize(Decimal("0.01")) for a finite value: InvalidOperation
\* when the result has more digits than the precision
QuantizeFinite(value) ==
    IF value.digits # <<"0">> /\ Len(value.digits) + value.exp + 2 > DecimalPrecision
    THEN Raise("InvalidOperation")
    ELSE IF Len(Coefficient(QuantizedDigits(value.digits, value.exp))) > DecimalPrecision
    THEN Raise("InvalidOperation")
    ELSE PyDecimal(value.sign, Coefficient(QuantizedDigits(value.digits, value.exp)), -2)

\* value.quantize(Decimal("0.01")): a quiet NaN is returned as it is, a
\* signaling NaN and an infinity signal InvalidOperation
Quantize(value) ==
    IF IsRaise(value) THEN value
    ELSE IF value = DecimalNaN THEN DecimalNaN
    ELSE IF value \in {DecimalSNaN, DecimalInfinity} THEN Raise("InvalidOperation")
    ELSE QuantizeFinite(value)

\* try: return ... except InvalidOperation: return None
OrNoneIfInvalid(result) == IF result = Raise("InvalidOperation") THEN None ELSE result

\* the separators of _parse_decimal: "." dropped and "," read as the point
\* when both occur, "," read as the point when it occurs alone
WithPoint(raw) ==
    IF IndexOf(raw, ",") # 0 /\ IndexOf(raw, ".") # 0
    THEN [i \in 1..Len(SelectSeq(raw, LAMBDA c : c # ".")) |->
             IF SelectSeq(raw, LAMBDA c : c # ".")[i] = "," THEN "."
             ELSE SelectSeq(raw, LAMBDA c : c # ".")[i]]
    ELSE [i \in 1..Len(raw) |-> IF raw[i] = "," THEN "." ELSE raw[i]]

\* _parse_decimal from raw = str(value).strip() on
ParseDecimalRaw(raw) ==
    IF raw = <<>> THEN None ELSE OrNoneIfInvalid(Quantize(DecimalOfStr(WithPoint(raw))))

\* _parse_decimal(value)
ParseDecimal(value) ==
    IF value = None \/ value = PyStr(<<>>) THEN None
    ELSE IF IsDecimal(value) THEN value
    ELSE IF value.t \in {"bool", "int", "float"}
    THEN OrNoneIfInvalid(Quantize(DecimalOfStr(StrOf(value))))
    ELSE ParseDecimalRaw(Strip(StrOf(value)))

\* datetime.date(year, month, day)
PyDate(year, month, day) == [t |-> "date", year |-> year, month |-> month, day |-> day]

\* the number of days of a month
DaysIn(year, month) ==
    IF month = 2
    THEN (IF year % 4 = 0 /\ (year % 100 # 0 \/ year % 400 = 0) THEN 29 ELSE 28)
    ELSE IF month \in {4, 6, 9, 11} THEN 30
    ELSE 31

\* datetime.date(year, month, day) with its range checks
DateOf(year, month, day) ==
    IF /\ year >= 1
       /\ month >= 1
       /\ month <= 12
       /\ day >= 1
       /\ day <= DaysIn(year, month)
    THEN PyDate(year, month, day)
    ELSE Raise("ValueError")

\* the text without one newline at its end: where $ matches
BeforeNewline(text) ==
    IF text # <<>> /\ text[Len(text)] = "\n" THEN SubSeq(text, 1, Len(text) - 1) ELSE text

\* the three groups of date_re, given the positions of the two hyphens
DateOfGroups(year, month, day) ==
    IF /\ AllDigits(year) /\ Len(year) = 4
       /\ AllDigits(month) /\ Len(month) <= 2
       /\ AllDigits(day) /\ Len(day) <= 2
    THEN DateOf(NatOfDigits(year), NatOfDigits(month), NatOfDigits(day))
    ELSE None

\* date_re.match on text that ends where $ matches
DateOfMatch(text) ==
    IF Len(text) < 6 \/ text[5] # "-" \/ IndexOf(SubSeq(text, 6, Len(text)), "-") = 0
    THEN None
    ELSE DateOfGroups(SubSeq(text, 1, 4),
                      SubSeq(text, 6, 4 + IndexOf(SubSeq(text, 6, Len(text)), "-")),
                      SubSeq(text, 6 + IndexOf(SubSeq(text, 6, Len(text)), "-"), Len(text)))

\* django.utils.dateparse.parse_date(value): None when the text is not
\* YYYY-MM-DD with one or two digits of month and day, ValueError when it is
\* but names no date.  (date.fromisoformat, tried first, gives the same on
\* these texts; the other ISO 8601 formats it reads from Python 3.11 on are
\* not among the texts of this model.)
parse_date(value) == DateOfMatch(BeforeNewline(value))

\* _parse_date_value(value)
ParseDateValue(value) ==
    IF ~Truthy(value) THEN None
    ELSE IF value.t = "date" THEN value
    ELSE parse_date(StrOf(value))

\* extracted_text or ""
TextValue(extracted_text) == Or(extracted_text, PyStr(<<>>))

\* (payload or {}).get(key)
PayloadGet(payload, key) == Get(Or(payload, PyDict(<<>>)), key)

\* fields of apply_extracted_fields: a dict in every case
FieldsOf(payload) == AsDict(Or(PayloadGet(payload, "fields"), PyDict(<<>>)))

\* the assignments of apply_extracted_fields, in the order of the code:
\* each the field of the document and the value of the right-hand side;
\* heuristics holds what extract_contact_phone, extract_age_years and
\* extract_experience_years of documents/services.py give for the text
Assignments(extracted_text, payload, heuristics) ==
    << <<"extracted_text_normalized", PyStr(NormalizeForMatch(TextValue(extracted_text).s))>>,
       <<"text_content", TextValue(extracted_text)>>,
       <<"text_content_norm", PyStr(NormalizeForMatch(TextValue(extracted_text).s))>>,
       <<"document_type", Or(PayloadGet(payload, "document_type"), PyStr(<<>>))>>,
       <<"issue_date", ParseDateValue(Get(FieldsOf(payload), "issue_date"))>>,
       <<"due_date", ParseDateValue(Get(FieldsOf(payload), "due_date"))>>,
       <<"document_value", ParseDecimal(Get(FieldsOf(payload), "document_value"))>>,
       <<"juros", ParseDecimal(Get(FieldsOf(payload), "juros"))>>,
       <<"multa", ParseDecimal(Get(FieldsOf(payload), "multa"))>>,
       <<"barcode", PyStr(NormalizeDigits(Get(FieldsOf(payload), "barcode"), PyInt(48), None))>>,
       <<"payee_name",
         PyStr(ProcessingCleanText(Get(FieldsOf(payload), "payee_name"), PyInt(200)))>>,
       <<"payer_name",
         PyStr(ProcessingCleanText(Get(FieldsOf(payload), "payer_name"), PyInt(200)))>>,
       <<"payee_cnpj",
         PyStr(NormalizeDigits(Or(Get(FieldsOf(payload), "payee_cnpj"),
                                  Get(FieldsOf(payload), "cnpj")),
                               None, PyInt(14)))>>,
       <<"payer_cnpj",
         PyStr(NormalizeDigits(Get(FieldsOf(payload), "payer_cnpj"), None, PyInt(14)))>>,
       <<"cpf", PyStr(NormalizeDigits(Get(FieldsOf(payload), "cpf"), None, PyInt(11)))>>,
       <<"document_number",
         PyStr(ProcessingCleanText(Get(FieldsOf(payload), "document_number"), PyInt(64)))>>,
       <<"contact_phone", heuristics.contact_phone>>,
       <<"extracted_age_years", heuristics.age_years>>,
       <<"extracted_experience_years", heuristics.experience_years>> >>

\* the position of the first assignment whose right-hand side raises, one
\* past the last assignment when none does
FirstRaise(assignments) ==
    IF \E n \in 1..Len(assignments) : IsRaise(assignments[n][2])
    THEN CHOOSE n \in 1..Len(assignments) :
             /\ IsRaise(assignments[n][2])
             /\ \A m \in 1..(n - 1) : ~IsRaise(assignments[m][2])
    ELSE Len(assignments) + 1

\* the document after the assignments before position stop
AssignedBefore(doc, assignments, stop) ==
    [f \in DOMAIN doc |->
        IF \E n \in 1..(stop - 1) : assignments[n][1] = f
        THEN assignments[CHOOSE n \in 1..(stop - 1) : assignments[n][1] = f][2]
        ELSE doc[f]]

\* apply_extracted_fields(doc, extracted_text, payload): the document it
\* leaves; an exception ends it at the assignment that raises
apply_extracted_fields(doc, extracted_text, payload, heuristics) ==
    AssignedBefore(doc, Assignments(extracted_text, payload, heuristics),
                   FirstRaise(Assignments(extracted_text, payload, heuristics)))

\* what apply_extracted_fields returns (None) or raises
ApplyOutcome(assignments) ==
    IF FirstRaise(assignments) > Len(assignments) THEN None
    ELSE assignments[FirstRaise(assignments)][2]

(***************************************************************************)
(* The documents, payloads and values the field applier is called on.      *)
(***************************************************************************)
\* a string of n digits: 1234567890 repeated
DigitRun(n) == [i \in 1..n |-> Chars("1234567890")[((i - 1) % 10) + 1]]

\* values of a date field
DateSamples ==
    { None, Text(""), Text("2024-02-29"), Text("2023-02-29"), Text("2024-02-30"),
      Text("2024-13-01"), Text("2024-2-3"), Text("0000-01-01"), Text("2024-04-31"),
      Text("2024-12-31\n"), Text("31/12/2024"), Text("abc"), Text(" 2024-01-01"),
      Text("2024-01-01T00:00"), PyInt(0), PyInt(7), PyList(<<>>), PyDate(2024, 5, 17) }

\* values of a money field
DecimalSamples ==
    { None, Text(""), Text("1.234,56"), Text("10,00"), Text("abc"), Text("1,234.56"),
      Text("1.234.567,891"), Text(" 12,345 "), Text("0,125"), Text("0,135"), Text("2.675"),
      Text("9,995"), Text("0,004"), Text("0,0051"), Text("-5"), Text("+7,5"), Text("-0"),
      Text(".5"), Text("5."), Text("."), Text("1e2"), Text("1E-3"), Text("1e30"),
      Text("1_000"), Text("R$ 10,00"), Text("1,2,3"), Text("nan"), Text("NaN"),
      Text("-nan"), Text("snan"), Text("inf"), Text("-Infinity"), Text("   "),
      PyStr(<<"U+0663">>), PyStr(DigitRun(30)), PyStr(DigitRun(26) \o Chars(",995")),
      PyInt(2), PyInt(-3), PyFloat(15, 1), PyFloat(2675, 3), PyNaN, PyInf, PyBool(TRUE),
      PyBigInt(BigExp), PyList(<< PyInt(1), PyInt(2) >>),
      PyDecimal(0, Chars("15"), -1), PyDecimal(0, Chars("1234"), -2), DecimalNaN }

\* values of a digit field
DigitSamples ==
    { None, Text(""), Text("12.345.678/0001-95"), Text("123.456.789-09"),
      Text("123456780001955"), Text("sem numero"), Text("1234567890"),
      PyStr(DigitRun(48)), PyStr(DigitRun(50)),
      PyStr(DigitRun(25) \o Chars(" ") \o DigitRun(25) \o Chars(".")),
      PyStr(<<"U+0663">> \o DigitRun(13)), PyStr(<<"U+0663">> \o Chars("-") \o DigitRun(10)),
      PyInt(123), PyInt(0), PyFloat(125, 1), PyList(<< PyInt(1), PyInt(2) >>) }

\* the limits _normalize_digits is called with
DigitLimits ==
    { [max_len |-> PyInt(48), exact_len |-> None], [max_len |-> None, exact_len |-> PyInt(14)],
      [max_len |-> None, exact_len |-> PyInt(11)], [max_len |-> None, exact_len |-> None],
      [max_len |-> PyInt(12), exact_len |-> PyInt(14)] }

\* a heuristic payload: document_type and the flat field map
Payload(document_type, fields) ==
    PyDict(<< <<"document_type", document_type>>, <<"fields", fields>> >>)

\* a payload whose every field parses
GoodFields ==
    PyDict(<< <<"issue_date", Text("2024-01-15")>>, <<"due_date", Text("2024-02-29")>>,
              <<"document_value", Text("1.234,56")>>, <<"juros", Text("10,00")>>,
              <<"multa", PyFloat(15, 1)>>, <<"barcode", PyStr(DigitRun(50))>>,
              <<"payee_name", Text("  ACME   Ltda ")>>, <<"payer_name", Text("Maria")>>,
              <<"cnpj", Text("12.345.678/0001-95")>>, <<"payer_cnpj", Text("123")>>,
              <<"cpf", Text("123.456.789-09")>>, <<"document_number", Text("NF 001")>> >>)

\* the fields of GoodFields with one of them replaced
WithField(key, value) ==
    PyDict([n \in 1..Len(GoodFields.items) |->
               IF GoodFields.items[n][1] = key THEN <<key, value>> ELSE GoodFields.items[n]])

\* the payloads of apply_extracted_fields
ApplyPayloads ==
    { None, PyDict(<<>>), Payload(None, None), Payload(Text("boleto"), PyList(<<>>)),
      Payload(Text("boleto"), Text("x")), Payload(Text("boleto"), GoodFields),
      Payload(Text("boleto"), One("payee_cnpj", Text("12.345.678/0001-95"))),
      Payload(Text("boleto"),
              PyDict(<< <<"payee_cnpj", Text("00.000.000/0001-91")>>,
                        <<"cnpj", Text("12.345.678/0001-95")>> >>)) }
    \cup {Payload(Text("boleto"), WithField("issue_date", v)) : v \in DateSamples}
    \cup {Payload(Text("nota"), WithField("due_date", v)) : v \in DateSamples}
    \cup {Payload(Text("boleto"), WithField("document_value", v)) : v \in DecimalSamples}
    \cup {Payload(Text("boleto"), WithField("juros", v)) :
            v \in {Text("abc"), Text("nan"), PyInf}}
    \cup {Payload(Text("boleto"), WithField("barcode", v)) : v \in DigitSamples}
    \cup {Payload(Text("boleto"), WithField("cnpj", v)) : v \in DigitSamples}
    \cup {Payload(Text("boleto"), WithField("payer_cnpj", v)) : v \in DigitSamples}
    \cup {Payload(Text("boleto"), WithField("cpf", v)) : v \in DigitSamples}

\* a document that was never processed
BlankDocument ==
    [extracted_text_normalized |-> Text(""), text_content |-> Text(""),
     text_content_norm |-> Text(""), document_type |-> Text(""), issue_date |-> None,
     due_date |-> None, document_value |-> None, juros |-> None, multa |-> None,
     barcode |-> Text(""), payee_name |-> Text(""), payer_name |-> Text(""),
     payee_cnpj |-> Text(""), payer_cnpj |-> Text(""), cpf |-> Text(""),
     document_number |-> Text(""), contact_phone |-> Text(""), extracted_age_years |-> None,
     extracted_experience_years |-> None]

\* a document that an earlier run has filled
FilledDocument ==
    [extracted_text_normalized |-> Text("antigo"), text_content |-> Text("Antigo"),
     text_content_norm |-> Text("antigo"), document_type |-> Text("recibo"),
     issue_date |-> PyDate(2020, 1, 1), due_date |-> PyDate(2020, 2, 1),
     document_value |-> PyDecimal(0, Chars("100"), -2), juros |-> None, multa |-> None,
     barcode |-> Text("999"), payee_name |-> Text("Antiga"), payer_name |-> Text(""),
     payee_cnpj |-> Text("99999999000199"), payer_cnpj |-> Text(""),
     cpf |-> Text("99999999999"), document_number |-> Text("9"),
     contact_phone |-> Text(""), extracted_age_years |-> PyInt(50),
     extracted_experience_years |-> None]

\* what the text heuristics of services give
Heuristics ==
    { [contact_phone |-> Text(""), age_years |-> None, experience_years |-> None],
      [contact_phone |-> Text("11999998888"), age_years |-> PyInt(30),
       experience_years |-> PyInt(4)] }

\* the calls of the field applier: the function and its arguments
ApplyCalls ==
    {[op |-> "_parse_decimal", value |-> v] : v \in DecimalSamples}
    \cup {[op |-> "_parse_date_value", value |-> v] : v \in DateSamples}
    \cup {[op |-> "_normalize_digits", value |-> v, max_len |-> l.max_len,
           exact_len |-> l.exact_len] : v \in DigitSamples, l \in DigitLimits}
    \cup {[op |-> "apply_extracted_fields", doc |-> d, extracted_text |-> t, payload |-> p,
           heuristics |-> h] :
            d \in {BlankDocument, FilledDocument},
            t \in {None, PyStr(Chars("Boleto  BANC") \o <<"U+00C9">> \o Chars("RIO\n"))},
            p \in ApplyPayloads, h \in Heuristics}

(***************************************************************************)
(* The field applier as a state machine: one call, which returns or        *)
(* raises.                                                                 *)
(***************************************************************************)
ApInit ==
    /\ ap_call \in ApplyCalls
    /\ ap_doc = IF ap_call.op = "apply_extracted_fields" THEN ap_call.doc ELSE NotCalled
    /\ ap_result = NotCalled
    /\ ap_pc = "call"

\* the call ends with the given result
ApReturn(op, result) ==
    /\ ap_pc = "call"
    /\ ap_call.op = op
    /\ ap_result' = result
    /\ ap_pc' = "returned"
    /\ UNCHANGED <<ap_call, np_vars, ri_vars, sf_vars, tk_vars>>

CallParseDecimal ==
    ApReturn("_parse_decimal", ParseDecimal(ap_call.value)) /\ UNCHANGED ap_doc

CallParseDateValue ==
    ApReturn("_parse_date_value", ParseDateValue(ap_call.value)) /\ UNCHANGED ap_doc

CallNormalizeDigits ==
    /\ ApReturn("_normalize_digits",
                PyStr(NormalizeDigits(ap_call.value, ap_call.max_len, ap_call.exact_len)))
    /\ UNCHANGED ap_doc

ApplyExtractedFields ==
    /\ ApReturn("apply_extracted_fields",
                ApplyOutcome(Assignments(ap_call.extracted_text, ap_call.payload,
                                         ap_call.heuristics)))
    /\ ap_doc' = apply_extracted_fields(ap_doc, ap_call.extracted_text, ap_call.payload,
                                        ap_call.heuristics)

ApNext ==
    \/ CallParseDecimal
    \/ CallParseDateValue
    \/ CallNormalizeDigits
    \/ ApplyExtractedFields

InitApply == NpIdle /\ RiIdle /\ SfIdle /\ ApInit /\ TkIdle

SpecApply == InitApply /\ [][ApNext]_vars

(***************************************************************************)
(* The processes that work on one document row.  The row is the committed  *)
(* state of the database; a transaction.atomic() block that starts with    *)
(* select_for_update() holds the row lock to its end, so it is one step.   *)
(* A model instance fetched without a lock is a snapshot in the process's  *)
(* local variables, and save(update_fields=...) writes those fields of it. *)
(***************************************************************************)
\* @shared_task(..., max_retries=3)
MaxRetries == 3

TaskProcs == {"task1", "task2"}
ViewProcs == {"post1", "post2"}
RetentionProcs == {"retention"}
Procs == TaskProcs \cup ViewProcs \cup RetentionProcs

\* no row with this id
NoRow == [status |-> "missing"]

\* the value of timezone.now()
Now == [t |-> "datetime"]

\* a document as upload_documents creates it
UploadedRow ==
    [status |-> "PENDING", processed_at |-> None, error_message |-> Text(""),
     extracted_json |-> None, fields |-> BlankDocument, is_deleted |-> FALSE,
     deleted_at |-> None, deleted_reason |-> Text("")]

\* doc.mark_processing()
MarkProcessing(doc) ==
    [doc EXCEPT !.status = "PROCESSING", !.processed_at = None,
                !.error_message = Text(""), !.extracted_json = None]

\* doc.mark_done(data, ...)
MarkDone(doc, data) ==
    [doc EXCEPT !.status = "DONE", !.processed_at = Now, !.error_message = Text(""),
                !.extracted_json = data]

\* doc.mark_failed(message)
MarkFailed(doc, message) ==
    [doc EXCEPT !.status = "FAILED", !.processed_at = Now, !.error_message = message]

\* doc.mark_deleted(reason=reason)
MarkDeleted(doc, reason) ==
    [doc EXCEPT !.is_deleted = TRUE, !.deleted_at = Now, !.deleted_reason = reason]

\* doc.save(update_fields=fields) on the committed row
SaveFields(row, doc, fields) ==
    [f \in DOMAIN row |-> IF f \in fields THEN doc[f] ELSE row[f]]

RETENTION_UPDATE_FIELDS == {"status", "is_deleted", "deleted_at", "deleted_reason"}

\* str(exc) of the exceptions the processing steps raise
StrOfExc(exc) ==
    CASE exc = "FileNotFoundError" -> Text("document file not available")
      [] exc = "RuntimeError" -> Text("AI extraction is disabled.")
      [] exc = "ValueError" -> Text("Document text is empty.")
      [] OTHER -> Text("")

\* what _prepare_document_file and process_document raise: the file is not
\* available, or extract_structured refuses
ProcessingErrors(stored) ==
    IF stored THEN {"RuntimeError", "ValueError"} ELSE {"FileNotFoundError"}

\* what process_document returns as data for the stored file
ProcessedData ==
    { Payload(Text("boleto"), GoodFields),
      Payload(Text("boleto"), WithField("due_date", Text("2024-02-30"))) }

\* the text process_document extracted
ExtractedText == PyStr(Chars("Boleto  BANC") \o <<"U+00C9">> \o Chars("RIO\n"))

\* what the text heuristics give for it
NoHeuristics == [contact_phone |-> Text(""), age_years |-> None, experience_years |-> None]

\* the results of the task
Skipped(reason) == [t |-> "dict", skipped |-> TRUE, reason |-> reason]
TaskOk == [t |-> "dict", ok |-> TRUE]
Redirect == [t |-> "redirect"]

\* the local variables of an invocation that has not run yet
Fresh(force, retries) ==
    [force |-> force, doc |-> NoRow, data |-> None, result |-> NotCalled, retries |-> retries]

\* process p moves to step pc with the local variables loc
Goto(p, pc, loc) ==
    /\ tk_pc' = [tk_pc EXCEPT ![p] = pc]
    /\ tk_local' = [tk_local EXCEPT ![p] = loc]

\* process p ends with the given result
Return(p, result) == Goto(p, "ended", [tk_local[p] EXCEPT !.result = result])

\* a first transaction that does not look for PROCESSING
BeginSkipUnlessProcessing(row, force) ==
    IF row = NoRow THEN "missing"
    ELSE IF row.status = "DONE" /\ ~force THEN "already_done"
    ELSE ""

\* a first transaction that marks the document before it checks the status
RowAfterBeginMarkedFirst(row, force) ==
    IF row = NoRow THEN NoRow ELSE MarkProcessing(row)

\* a failure handler that records the message and leaves the status
RowAfterFailureStatusKept(row, exc) ==
    IF row = NoRow THEN NoRow
    ELSE [row EXCEPT !.processed_at = Now, !.error_message = StrOfExc(exc)]

\* process_document_task, first transaction: the reason the invocation is
\* skipped for, "" when it goes on
BeginSkip(row, force) ==
    IF row = NoRow THEN "missing"
    ELSE IF row.status = "PROCESSING" THEN "already_processing"
    ELSE IF row.status = "DONE" /\ ~force THEN "already_done"
    ELSE ""

\* the row the first transaction commits
RowAfterBegin(row, force) ==
    IF BeginSkip(row, force) = "" THEN MarkProcessing(row) ELSE row

\* with transaction.atomic(): doc = ...select_for_update().get(id=doc_id) ...
TaskBegin(p) ==
    /\ p \in TaskProcs
    /\ tk_pc[p] = "start"
    /\ doc_row' = RowAfterBegin(doc_row, tk_local[p].force)
    /\ IF BeginSkip(doc_row, tk_local[p].force) = ""
       THEN Goto(p, "processing", tk_local[p])
       ELSE Return(p, Skipped(BeginSkip(doc_row, tk_local[p].force)))
    /\ UNCHANGED <<file_stored, np_vars, ri_vars, sf_vars, ap_vars>>

\* _prepare_document_file, get_keyword_map and process_document return
TaskProcessed(p) ==
    /\ p \in TaskProcs
    /\ tk_pc[p] = "processing"
    /\ file_stored
    /\ \E data \in ProcessedData : Goto(p, "finish", [tk_local[p] EXCEPT !.data = data])
    /\ UNCHANGED <<doc_row, file_stored, np_vars, ri_vars, sf_vars, ap_vars>>

\* Document.objects.filter(id=doc_id).update(status=FAILED, ...)
RowAfterFailure(row, exc) ==
    IF row = NoRow THEN NoRow
    ELSE [row EXCEPT !.status = "FAILED", !.processed_at = Now,
                     !.error_message = StrOfExc(exc)]

\* one of them raises: except Exception as exc
TaskFailed(p) ==
    /\ p \in TaskProcs
    /\ tk_pc[p] = "processing"
    /\ \E exc \in ProcessingErrors(file_stored) :
          /\ doc_row' = RowAfterFailure(doc_row, exc)
          /\ Return(p, IF doc_row = NoRow THEN Skipped("missing") ELSE Raise(exc))
    /\ UNCHANGED <<file_stored, np_vars, ri_vars, sf_vars, ap_vars>>

\* the assignments apply_extracted_fields(doc, extracted_text, data) makes,
\* for each data process_document returns
TaskAssignments ==
    [data \in ProcessedData |-> Assignments(ExtractedText, data, NoHeuristics)]

\* the row the final transaction commits: an exception in it rolls it back
RowAfterFinish(row, data) ==
    IF row = NoRow THEN NoRow
    ELSE IF IsRaise(ApplyOutcome(TaskAssignments[data])) THEN row
    ELSE MarkDone([row EXCEPT !.fields = AssignedBefore(row.fields, TaskAssignments[data],
                                                        Len(TaskAssignments[data]) + 1)],
                  data)

\* what the final transaction returns or raises
FinishResult(row, data) ==
    IF row = NoRow THEN Skipped("missing")
    ELSE IF IsRaise(ApplyOutcome(TaskAssignments[data])) THEN ApplyOutcome(TaskAssignments[data])
    ELSE TaskOk

\* with transaction.atomic(): ... apply_extracted_fields; mark_done; save
TaskFinish(p) ==
    /\ p \in TaskProcs
    /\ tk_pc[p] = "finish"
    /\ doc_row' = RowAfterFinish(doc_row, tk_local[p].data)
    /\ Return(p, FinishResult(doc_row, tk_local[p].data))
    /\ UNCHANGED <<file_stored, np_vars, ri_vars, sf_vars, ap_vars>>

\* autoretry_for=(Exception,): the worker runs the task again with the same
\* arguments, at most max_retries times
TaskRetry(p) ==
    /\ p \in TaskProcs
    /\ tk_pc[p] = "ended"
    /\ IsRaise(tk_local[p].result)
    /\ tk_local[p].retries < MaxRetries
    /\ Goto(p, "start", Fresh(tk_local[p].force, tk_local[p].retries + 1))
    /\ UNCHANGED <<doc_row, file_stored, np_vars, ri_vars, sf_vars, ap_vars>>

\* the owner deletes the document
RowDeleted ==
    /\ doc_row # NoRow
    /\ doc_row' = NoRow
    /\ UNCHANGED <<file_stored, tk_pc, tk_local, np_vars, ri_vars, sf_vars, ap_vars>>

\* process_document_view: whether the POST returns before processing
ViewSkip(doc, allow_reprocess) ==
    \/ doc.status = "PROCESSING"
    \/ doc.status = "DONE" /\ ~allow_reprocess

\* doc = get_object_or_404(...) and the two status checks
ViewGet(p) ==
    /\ p \in ViewProcs
    /\ tk_pc[p] = "start"
    /\ IF doc_row = NoRow THEN Return(p, Raise("Http404"))
       ELSE IF ViewSkip(doc_row, tk_local[p].force)
       THEN Goto(p, "ended", [tk_local[p] EXCEPT !.doc = doc_row, !.result = Redirect])
       ELSE Goto(p, "mark", [tk_local[p] EXCEPT !.doc = doc_row])
    /\ UNCHANGED <<doc_row, file_stored, np_vars, ri_vars, sf_vars, ap_vars>>

\* doc.mark_processing(); doc.save(update_fields=[...])
ViewMark(p) ==
    /\ p \in ViewProcs
    /\ tk_pc[p] = "mark"
    /\ doc_row' = SaveFields(doc_row, MarkProcessing(tk_local[p].doc),
                             {"status", "processed_at", "error_message", "extracted_json"})
    /\ Goto(p, "processing", [tk_local[p] EXCEPT !.doc = MarkProcessing(tk_local[p].doc)])
    /\ UNCHANGED <<file_stored, np_vars, ri_vars, sf_vars, ap_vars>>

\* data = process_document(doc.file.path); doc.mark_done(data); doc.save()
ViewProcessed(p) ==
    /\ p \in ViewProcs
    /\ tk_pc[p] = "processing"
    /\ file_stored
    /\ \E data \in ProcessedData :
          /\ doc_row' = MarkDone(tk_local[p].doc, data)
          /\ Goto(p, "ended", [tk_local[p] EXCEPT !.doc = MarkDone(tk_local[p].doc, data),
                                                  !.data = data, !.result = Redirect])
    /\ UNCHANGED <<file_stored, np_vars, ri_vars, sf_vars, ap_vars>>

\* except Exception as exc: doc.mark_failed(str(exc)); doc.save(update_fields=[...])
ViewFailed(p) ==
    /\ p \in ViewProcs
    /\ tk_pc[p] = "processing"
    /\ \E exc \in ProcessingErrors(file_stored) :
          /\ doc_row' = SaveFields(doc_row, MarkFailed(tk_local[p].doc, StrOfExc(exc)),
                                   {"status", "processed_at", "error_message"})
          /\ Goto(p, "ended",
                  [tk_local[p] EXCEPT !.doc = MarkFailed(tk_local[p].doc, StrOfExc(exc)),
                                      !.result = Redirect])
    /\ UNCHANGED <<file_stored, np_vars, ri_vars, sf_vars, ap_vars>>

\* retention_cleanup_task: whether the queryset selects the document, which
\* was uploaded before the cutoff
RetentionSelects(row) ==
    /\ row # NoRow
    /\ ~row.is_deleted
    /\ row.status # "PROCESSING"

\* for doc in docs.iterator(): the query runs
RetentionFetch(p) ==
    /\ p \in RetentionProcs
    /\ tk_pc[p] = "start"
    /\ IF RetentionSelects(doc_row)
       THEN Goto(p, "delete_file", [tk_local[p] EXCEPT !.doc = doc_row])
       ELSE Return(p, [t |-> "dict", total |-> 0, deleted |-> 0])
    /\ UNCHANGED <<doc_row, file_stored, np_vars, ri_vars, sf_vars, ap_vars>>

\* doc.file.storage.delete(doc.file.name)
RetentionDeleteFile(p) ==
    /\ p \in RetentionProcs
    /\ tk_pc[p] = "delete_file"
    /\ file_stored' = FALSE
    /\ Goto(p, "mark", tk_local[p])
    /\ UNCHANGED <<doc_row, np_vars, ri_vars, sf_vars, ap_vars>>

\* doc.mark_deleted(reason=reason); doc.save(update_fields=RETENTION_UPDATE_FIELDS)
RetentionMark(p) ==
    /\ p \in RetentionProcs
    /\ tk_pc[p] = "mark"
    /\ doc_row # NoRow
    /\ doc_row' = SaveFields(doc_row, MarkDeleted(tk_local[p].doc, Text("retention_30d")),
                             RETENTION_UPDATE_FIELDS)
    /\ Goto(p, "ended", [tk_local[p] EXCEPT !.result = [t |-> "dict", total |-> 1,
                                                        deleted |-> 1]])
    /\ UNCHANGED <<file_stored, np_vars, ri_vars, sf_vars, ap_vars>>

(***************************************************************************)
(* The rows the processes start from, and the systems of processes.        *)
(***************************************************************************)
\* a document an earlier run has processed, or failed on
InitialRows ==
    { UploadedRow,
      MarkDone([UploadedRow EXCEPT !.fields = FilledDocument],
               Payload(Text("recibo"), PyDict(<<>>))),
      MarkFailed(UploadedRow, StrOfExc("RuntimeError")) }

\* the processes of running start with the given force flags, the others
\* never run
Started(running, force) ==
    /\ tk_pc = [p \in Procs |-> IF p \in running THEN "start" ELSE "idle"]
    /\ tk_local = [p \in Procs |-> Fresh(IF p \in running THEN force[p] ELSE FALSE, 0)]

\* two invocations of process_document_task for the same document
InitTasks ==
    /\ NpIdle /\ RiIdle /\ SfIdle /\ ApIdle
    /\ doc_row \in InitialRows \cup {NoRow}
    /\ file_stored = TRUE
    /\ \E force \in [TaskProcs -> BOOLEAN] : Started(TaskProcs, force)

TaskNext ==
    \/ \E p \in TaskProcs : TaskBegin(p)
    \/ \E p \in TaskProcs : TaskProcessed(p)
    \/ \E p \in TaskProcs : TaskFailed(p)
    \/ \E p \in TaskProcs : TaskFinish(p)
    \/ \E p \in TaskProcs : TaskRetry(p)

TasksNext == TaskNext \/ RowDeleted

SpecTasks == InitTasks /\ [][TasksNext]_vars

\* a worker that has taken an invocation runs it to its end, and the broker
\* delivers every retry
TaskRuns(p) ==
    TaskBegin(p) \/ TaskProcessed(p) \/ TaskFailed(p) \/ TaskFinish(p) \/ TaskRetry(p)

SpecTasksFair == SpecTasks /\ \A p \in TaskProcs : WF_vars(TaskRuns(p))

\* two POSTs to process_document_view and one process_document_task
InitView ==
    /\ NpIdle /\ RiIdle /\ SfIdle /\ ApIdle
    /\ doc_row \in InitialRows \cup {NoRow}
    /\ file_stored = TRUE
    /\ \E force \in [ViewProcs \cup {"task1"} -> BOOLEAN] :
          Started(ViewProcs \cup {"task1"}, force)

ViewNext ==
    \/ \E p \in ViewProcs : ViewGet(p)
    \/ \E p \in ViewProcs : ViewMark(p)
    \/ \E p \in ViewProcs : ViewProcessed(p)
    \/ \E p \in ViewProcs : ViewFailed(p)

SpecView == InitView /\ [][ViewNext \/ TaskNext]_vars

\* retention_cleanup_task and one process_document_task
InitRetention ==
    /\ NpIdle /\ RiIdle /\ SfIdle /\ ApIdle
    /\ doc_row \in InitialRows \cup {NoRow}
    /\ file_stored = TRUE
    /\ \E force \in [RetentionProcs \cup {"task1"} -> BOOLEAN] :
          Started(RetentionProcs \cup {"task1"}, force)

RetentionNext ==
    \/ \E p \in RetentionProcs : RetentionFetch(p)
    \/ \E p \in RetentionProcs : RetentionDeleteFile(p)
    \/ \E p \in RetentionProcs : RetentionMark(p)

SpecRetention == InitRetention /\ [][RetentionNext \/ TaskNext]_vars

(***************************************************************************)
(* Properties of the payload normalizer.                                   *)
(***************************************************************************)
\* a call of normalize_ai_payload has returned a normalized payload
NpReturned == np_pc = "returned" /\ ~IsRaise(np_result)

\* the field of a section ("person", "experience", "confidence") of a dict
Field(payload, section, field) == Get(Get(payload, section), field)

\* the list given for a field of a section of the input, <<>> when the
\* payload, the section or the field has another shape
InputList(section, field) ==
    IF IsDict(np_payload) /\ IsDict(Get(np_payload, section))
       /\ IsList(Field(np_payload, section, field))
    THEN Field(np_payload, section, field).l
    ELSE <<>>

\* the value given for a field of a section of the input, None when absent
InputValue(section, field) ==
    IF IsDict(np_payload) /\ IsDict(Get(np_payload, section))
    THEN Field(np_payload, section, field)
    ELSE None

\* the list given for a top-level field of the input
InputItems(field) ==
    IF IsDict(np_payload) /\ IsList(Get(np_payload, field))
    THEN Get(np_payload, field).l
    ELSE <<>>

RECURSIVE PyEq(_, _)
\* a == b, compared field by field: a nan differs from every float
PyEq(a, b) ==
    IF a.t = "float" /\ b.t = "float"
    THEN ~IsSpecial(a, "nan") /\ ~IsSpecial(b, "nan") /\ a = b
    ELSE IF a.t = "list" /\ b.t = "list"
    THEN Len(a.l) = Len(b.l) /\ \A i \in 1..Len(a.l) : PyEq(a.l[i], b.l[i])
    ELSE IF a.t = "dict" /\ b.t = "dict"
    THEN /\ Len(a.items) = Len(b.items)
         /\ \A i \in 1..Len(a.items) :
                /\ HasKey(b, a.items[i][1])
                /\ PyEq(a.items[i][2], Get(b, a.items[i][1]))
    ELSE a = b

\* C1: normalize_ai_payload never raises and always returns a complete
\* NormalizedExtraction, whatever the shape of its input.
C1_NeverRaises ==
    np_pc = "returned" =>
        /\ ~IsRaise(np_result)
        /\ IsDict(np_result)
        /\ \A k \in {"doc_type", "person", "experience", "skills", "education",
                     "keywords_evidence", "confidence"} : HasKey(np_result, k)

\* C2: normalizing a normalized payload gives a payload equal to it, field
\* by field.
C2_Idempotent ==
    (np_pc = "returned" /\ np_prev # NotCalled) => PyEq(np_result, np_prev)

\* an int value within lo..hi, or None
IntWithinOrNone(v, lo, hi) ==
    v = None \/ (IsSmallInt(v) /\ v.i >= lo /\ v.i <= hi)

\* C3: in every output, confidence.overall is in [0,1], age_estimate_years
\* is null or an integer in [0,120], years_estimate is null or an integer in
\* [0,60], and every list respects its cap.
C3_Bounds ==
    NpReturned =>
        /\ FloatInUnit(Field(np_result, "confidence", "overall"))
        /\ IntWithinOrNone(Field(np_result, "person", "age_estimate_years"), 0, 120)
        /\ IntWithinOrNone(Field(np_result, "experience", "years_estimate"), 0, 60)
        /\ Len(Field(np_result, "person", "emails").l) <= 10
        /\ Len(Field(np_result, "person", "phones").l) <= 10
        /\ Len(Field(np_result, "experience", "roles").l) <= 20
        /\ Len(Field(np_result, "experience", "companies").l) <= 20
        /\ Len(Get(np_result, "skills").l) <= 30
        /\ Len(Get(np_result, "education").l) <= 20
        /\ Len(Get(np_result, "keywords_evidence").l) <= 40

\* the four deduplicated lists, each with the max_len its entries are cut to
DedupFields ==
    {<<"person", "emails", 120>>, <<"person", "phones", 32>>,
     <<"experience", "roles", 120>>, <<"experience", "companies", 120>>}

\* no two entries of the list are equal up to case
NoCaseDuplicates(l) ==
    \A i, j \in 1..Len(l) : i # j => Lower(l[i].s) # Lower(l[j].s)

\* every entry of the list is the cleaned text of the first input element
\* that equals it up to case
FirstSeenKept(l, input, max_len) ==
    \A n \in 1..Len(l) :
        \E k \in 1..Len(input) :
            /\ CleanText(input[k], max_len) = l[n].s
            /\ \A j \in 1..(k - 1) :
                   Lower(CleanText(input[j], max_len)) # Lower(l[n].s)

\* C4: in the output no two entries of emails, phones, roles or companies
\* are equal up to case, and of the input entries that differ only in case
\* the first one is the one kept, in its own casing.
C4_Dedup ==
    NpReturned =>
        \A f \in DedupFields :
            /\ NoCaseDuplicates(Field(np_result, f[1], f[2]).l)
            /\ FirstSeenKept(Field(np_result, f[1], f[2]).l, InputList(f[1], f[2]), f[3])

\* C4's case: the input list holds two entries that differ only in case,
\* and the output keeps the first of them and not the second
C4_Witness ==
    /\ NpReturned
    /\ \E f \in DedupFields :
        \E i, j \in 1..Len(InputList(f[1], f[2])) :
            /\ i < j
            /\ InputList(f[1], f[2])[i].t = "str"
            /\ InputList(f[1], f[2])[j].t = "str"
            /\ InputList(f[1], f[2])[i] # InputList(f[1], f[2])[j]
            /\ Lower(InputList(f[1], f[2])[i].s) = Lower(InputList(f[1], f[2])[j].s)
            /\ InputList(f[1], f[2])[i] = Field(np_result, f[1], f[2]).l[1]
            /\ Len(Field(np_result, f[1], f[2]).l) = 1

\* a value is missing or blank: None, or text of whitespace only
Blank(v) == v = None \/ \A i \in 1..Len(StrOf(v)) : IsSpace(StrOf(v)[i])

\* the item is a dict in which none of the fields is missing or blank
HasAll(item, fields) == IsDict(item) /\ \A f \in fields : ~Blank(Get(item, f))

\* the number of items of the list that hold all the fields
Complete(items, fields) ==
    Cardinality({i \in 1..Len(items) : HasAll(items[i], fields)})

\* every entry of the output list holds a non-empty text in each of the
\* fields, and the list holds as many entries as input items hold all the
\* fields (at most cap of them)
RequiredKept(out, items, fields, cap) ==
    /\ \A n \in 1..Len(out) :
           \A f \in fields : Get(out[n], f).t = "str" /\ Get(out[n], f).s # <<>>
    /\ Len(out) = IF Complete(items, fields) < cap THEN Complete(items, fields) ELSE cap

\* C5: every output skill has a non-empty name and evidence, every education
\* entry a non-empty evidence, every keywords_evidence entry a non-empty term
\* and evidence; an input item missing (or blank in) a required field is
\* absent from the output list.
C5_RequiredFields ==
    NpReturned =>
        /\ RequiredKept(Get(np_result, "skills").l, InputItems("skills"),
                        {"name", "evidence"}, 30)
        /\ RequiredKept(Get(np_result, "education").l, InputItems("education"),
                        {"evidence"}, 20)
        /\ RequiredKept(Get(np_result, "keywords_evidence").l,
                        InputItems("keywords_evidence"), {"term", "evidence"}, 40)

\* C5's case: the input skills hold an item with a name and no evidence
\* among items that hold both, and the output holds only the latter
C5_Witness ==
    /\ NpReturned
    /\ \E i \in 1..Len(InputItems("skills")) :
           /\ IsDict(InputItems("skills")[i])
           /\ ~Blank(Get(InputItems("skills")[i], "name"))
           /\ Blank(Get(InputItems("skills")[i], "evidence"))
    /\ Get(np_result, "skills").l # <<>>
    /\ Len(Get(np_result, "skills").l) < Len(InputItems("skills"))

\* the value is a fraction, an integer outside lo..hi, or a text that is
\* not a number
NotAnIntegerWithin(v, lo, hi) ==
    \/ IsSmallInt(v) /\ (v.i < lo \/ v.i > hi)
    \/ IsFinite(v) /\ v.scale > 0
    \/ v.t = "str" /\ IsRaise(IntOfStr(v.s))

\* the integer field of the output is the input when that is an integer
\* within lo..hi, and null when it is not an integer within lo..hi
IntFieldExact(out, in, lo, hi) ==
    /\ (IsSmallInt(in) /\ in.i >= lo /\ in.i <= hi) => out = in
    /\ NotAnIntegerWithin(in, lo, hi) => out = None

\* C6: age_estimate_years and years_estimate return an in-range integer
\* input unchanged, and null for any out-of-range or non-integer input (121,
\* -1, a fractional number, a non-numeric text); never a boundary value.
C6_IntFields ==
    NpReturned =>
        /\ IntFieldExact(Field(np_result, "person", "age_estimate_years"),
                         InputValue("person", "age_estimate_years"), 0, 120)
        /\ IntFieldExact(Field(np_result, "experience", "years_estimate"),
                         InputValue("experience", "years_estimate"), 0, 60)

(***************************************************************************)
(* Properties of the intent resolver.                                      *)
(***************************************************************************)
\* a call of resolve_intent has returned
RiReturned == ri_pc = "returned"

\* the normalized label of the call, and the candidates of its registry
RiNormalized == NormalizeLabel(ri_label)
RiCandidates == BuildBuiltinCandidates(ri_fields)

\* the normalized label is non-empty and equals a candidate
RiExact == RiNormalized # <<>> /\ InExactLookup(RiCandidates, RiNormalized)

\* the normalized label is non-empty and equals no candidate
RiNoExact == RiNormalized # <<>> /\ ~InExactLookup(RiCandidates, RiNormalized)

\* the highest similarity of the normalized label to a candidate
BestScore(candidates, normalized) ==
    CHOOSE best \in {Ratio(normalized, candidates[n][1]) : n \in 1..Len(candidates)} :
        \A n \in 1..Len(candidates) : ~Greater(Ratio(normalized, candidates[n][1]), best)

\* the score is at least 0.84
AtLeast084(score) == score.num * 100 >= 84 * score.den

\* the best score of the call is at least 0.84
RiBestAtLeast084 == AtLeast084(BestScore(RiCandidates, RiNormalized))

\* C7: with the builtin fields [("due_date", "Data de Vencimento")] the
\* label "Data de Vencimento" resolves to kind builtin, key due_date,
\* match_strategy "label" and confidence 1.0; and a label that normalizes
\* to the normalized display label of a builtin field resolves with
\* match_strategy "label".
C7_LabelStrategy ==
    RiReturned =>
        /\ (/\ ri_label = Chars("Data de Vencimento")
            /\ ri_fields = << BuiltinField("due_date", "Data de Vencimento") >>)
           => /\ ri_result.kind = "builtin"
              /\ ri_result.builtin_key = Chars("due_date")
              /\ ri_result.match_strategy = "label"
              /\ ri_result.confidence = Frac(1, 1)
        /\ (/\ RiNormalized # <<>>
            /\ \E n \in 1..Len(ri_fields) : NormalizeLabel(ri_fields[n][2]) = RiNormalized)
           => ri_result.match_strategy = "label"

\* the first candidate, in insertion order, that equals the normalized label
FirstCandidate(candidates, normalized) ==
    candidates[CHOOSE n \in 1..Len(candidates) :
                   /\ candidates[n][1] = normalized
                   /\ \A m \in 1..(n - 1) : candidates[m][1] # normalized]

\* C8: when the normalized label equals several candidates, the one that
\* comes first in insertion order (keys, then labels, then synonyms) gives
\* the returned builtin_key and match_strategy.
C8_FirstCandidateWins ==
    (RiReturned /\ RiExact) =>
        /\ ri_result.builtin_key = FirstCandidate(RiCandidates, RiNormalized)[2]
        /\ ri_result.match_strategy = FirstCandidate(RiCandidates, RiNormalized)[3]

CustomResult(normalized, anchor) ==
    [kind |-> "custom", builtin_key |-> <<>>,
     inferred_type |-> InferType(normalized, <<>>), anchors |-> <<anchor>>,
     match_strategy |-> "custom", confidence |-> Frac(0, 1)]

\* C10 as stated: a non-empty label with no exact match and no fuzzy match
\* at or above the threshold resolves to kind custom, empty builtin_key,
\* match_strategy "custom", confidence 0, the type inferred from the
\* normalized text alone and the original label as its only anchor,
\* whether or not allow_llm is set.
C10_AnchorsOriginalLabel ==
    (RiReturned /\ RiNoExact /\ ~RiBestAtLeast084) =>
        ri_result = CustomResult(RiNormalized, ri_label)

\* C10, amended: the same, with the label stripped of its leading and
\* trailing whitespace as the only anchor.
C10_CustomFallthrough ==
    (RiReturned /\ RiNoExact /\ ~RiBestAtLeast084) =>
        ri_result = CustomResult(RiNormalized, Strip(ri_label))

\* C10's case: with allow_llm set, a label given with surrounding
\* whitespace falls through to a custom intent
C10_Witness ==
    /\ RiReturned
    /\ RiNoExact
    /\ ~RiBestAtLeast084
    /\ ri_allow_llm
    /\ Strip(ri_label) # ri_label
    /\ ri_result.kind = "custom"

\* the score is at most 1.0
AtMostOne(score) == score.num <= score.den

\* C27: every ResolvedIntent that resolve_intent returns, for any label and
\* any registry of builtin fields, has kind builtin exactly when its
\* builtin_key is non-empty; a custom one has confidence 0 and
\* match_strategy custom or empty; a builtin one has match_strategy exact,
\* label, synonym or fuzzy and a confidence from 0.84 to 1.
C27_IntentInvariants ==
    RiReturned =>
        /\ ri_result.kind \in {"builtin", "custom"}
        /\ (ri_result.kind = "builtin") <=> (ri_result.builtin_key # <<>>)
        /\ ri_result.kind = "custom" =>
              /\ ri_result.confidence.num = 0
              /\ ri_result.match_strategy \in {"custom", "empty"}
        /\ ri_result.kind = "builtin" =>
              /\ ri_result.match_strategy \in {"exact", "label", "synonym", "fuzzy"}
              /\ AtLeast084(ri_result.confidence)
              /\ AtMostOne(ri_result.confidence)

\* the two scores are the same number
SameScore(x, y) == x.num * y.den = y.num * x.den

\* the similarity of the normalized label of the call to candidate n
RiScore(n) == Ratio(RiNormalized, RiCandidates[n][1])

\* candidate n has the highest similarity and no candidate before it has
RiFirstAtBest(n) ==
    /\ \A m \in 1..Len(RiCandidates) : ~Greater(RiScore(m), RiScore(n))
    /\ \A m \in 1..(n - 1) : ~SameScore(RiScore(m), RiScore(n))

\* C28: in the fuzzy fallback of resolve_intent, when several candidates
\* have the highest similarity, the one that comes first in candidate order
\* gives the returned builtin_key.
C28_FirstOfTies ==
    (RiReturned /\ RiNoExact /\ ri_result.match_strategy = "fuzzy") =>
        \E n \in 1..Len(RiCandidates) :
            RiFirstAtBest(n) /\ ri_result.builtin_key = RiCandidates[n][2]

\* a fuzzy match in which two candidates of different keys have the highest
\* similarity
C28_Witness ==
    /\ RiReturned
    /\ RiNoExact
    /\ ri_result.match_strategy = "fuzzy"
    /\ \E n, m \in 1..Len(RiCandidates) :
          /\ RiFirstAtBest(n)
          /\ m > n
          /\ SameScore(RiScore(m), RiScore(n))
          /\ RiCandidates[m][2] # RiCandidates[n][2]

\* the substring rules of the label text: the type and the terms of each, in
\* their order; the last one matches every text
TypeRules ==
    << <<"cnpj", {"cnpj"}>>, <<"cpf", {"cpf"}>>, <<"barcode", {"barra", "linha", "barcode"}>>,
       <<"date", {"vencimento", "data"}>>,
       <<"money", {"valor", "total", "juros", "multa", "preco"}>>, <<"postal", {"cep"}>>,
       <<"address", {"endereco", "logradouro", "rua", "avenida"}>>,
       <<"id", {"numero", "n ", "no ", "matricula", "cliente"}>>, <<"text", {""}>> >>

\* rule n matches the text
RuleMatches(n, normalized) == \E term \in TypeRules[n][2] : Contains(normalized, Chars(term))

\* the type of the first rule that matches the text
FirstRuleType(normalized) ==
    TypeRules[CHOOSE n \in 1..Len(TypeRules) :
                  /\ RuleMatches(n, normalized)
                  /\ \A m \in 1..(n - 1) : ~RuleMatches(m, normalized)][1]

\* the entry of the builtin key in the type table, "text" when it has none
TableType(builtin_key) ==
    IF \E n \in 1..Len(TYPE_BY_BUILTIN) : TYPE_BY_BUILTIN[n][1] = builtin_key
    THEN CHOOSE type \in {TYPE_BY_BUILTIN[n][2] : n \in 1..Len(TYPE_BY_BUILTIN)} :
             \E n \in 1..Len(TYPE_BY_BUILTIN) :
                 TYPE_BY_BUILTIN[n][1] = builtin_key /\ TYPE_BY_BUILTIN[n][2] = type
    ELSE "text"

\* C29: the inferred type is the type-table entry of the builtin key ("text"
\* when the key is not in the table) whenever a key is given, whatever the
\* label text; without a key it is the type of the first substring rule, in
\* the order cnpj, cpf, barcode, date, money, postal, address, id, text, that
\* matches the normalized label.
C29_InferredType ==
    (RiReturned /\ RiNormalized # <<>>) =>
        ri_result.inferred_type =
            IF ri_result.builtin_key # <<>> THEN TableType(ri_result.builtin_key)
            ELSE FirstRuleType(RiNormalized)

\* a label without a key that matches the cnpj rule and the date rule is
\* typed cnpj
C29_Witness ==
    /\ RiReturned
    /\ ri_result.builtin_key = <<>>
    /\ RuleMatches(1, RiNormalized)
    /\ RuleMatches(4, RiNormalized)
    /\ ri_result.inferred_type = "cnpj"

\* the texts the anchors of the returned match are taken from: the trimmed
\* label, the display label of the builtin field, the synonyms of its key
RiAnchorSources ==
    << Strip(ri_label), BuiltinLabel(ri_result.builtin_key, ri_fields) >>
    \o SynonymsOf(ri_result.builtin_key)

\* the positions of the sources that are the first of their normalized
\* form, which is not empty
RiFirstSeen ==
    SelectSeq([n \in 1..Len(RiAnchorSources) |-> n],
              LAMBDA n : /\ NormalizeLabel(RiAnchorSources[n]) # <<>>
                         /\ \A m \in 1..(n - 1) :
                                NormalizeLabel(RiAnchorSources[m])
                                    # NormalizeLabel(RiAnchorSources[n]))

\* C30: the anchors of a builtin match contain no two entries of the same
\* normalized form and no entry whose normalized form is empty; they are,
\* in first-seen order, the trimmed label, the display label of the builtin
\* field and the synonyms of its key in table order, each as its original
\* text.
C30_AnchorsUnique ==
    (RiReturned /\ ri_result.kind = "builtin") =>
        /\ \A i, j \in 1..Len(ri_result.anchors) :
               i # j => NormalizeLabel(ri_result.anchors[i]) # NormalizeLabel(ri_result.anchors[j])
        /\ \A i \in 1..Len(ri_result.anchors) : NormalizeLabel(ri_result.anchors[i]) # <<>>
        /\ Len(ri_result.anchors) = Len(RiFirstSeen)
        /\ \A i \in 1..Len(RiFirstSeen) : ri_result.anchors[i] = RiAnchorSources[RiFirstSeen[i]]

\* a builtin match in which the display label and a synonym repeat the
\* normalized form of an earlier anchor and are dropped
C30_Witness ==
    /\ RiReturned
    /\ ri_result.kind = "builtin"
    /\ Len(ri_result.anchors) >= 2
    /\ Len(ri_result.anchors) + 2 <= Len(RiAnchorSources)
    /\ ri_result.anchors[1] = Strip(ri_label)

(***************************************************************************)
(* Properties of the semantic filters.                                     *)
(***************************************************************************)
\* a call of the given function of ai_filters has returned
SfReturned(op) == sf_pc = "returned" /\ sf_call.op = op

\* the AI payload's estimate of the document of the call
AiEstimate(section, field) == Get(AsDict(Get(get_ai_payload(sf_call.doc), section)), field)

\* the value is an integer within lo..hi
IntegerWithin(v, lo, hi) == IsSmallInt(v) /\ v.i >= lo /\ v.i <= hi

\* the AI value when it is an integer within lo..hi, else the heuristic
\* value when that is within lo..hi, else null
Preferred(ai_value, heuristic_value, lo, hi) ==
    IF IntegerWithin(ai_value, lo, hi) THEN ai_value
    ELSE IF IntegerWithin(heuristic_value, lo, hi) THEN heuristic_value
    ELSE None

\* C11: resolve_experience_years returns the AI years_estimate when it is
\* an integer in [0,60], else the heuristic extracted_experience_years when
\* that is in [0,60], else null; resolve_age_years likewise with [0,120];
\* so a document with heuristic experience 1 and AI experience 6 passes
\* experience_min_years = 5.
C11_AiValuePreferred ==
    /\ SfReturned("resolve_experience_years") =>
           sf_result = Preferred(AiEstimate("experience", "years_estimate"),
                                 sf_call.doc.extracted_experience_years, 0, 60)
    /\ SfReturned("resolve_age_years") =>
           sf_result = Preferred(AiEstimate("person", "age_estimate_years"),
                                 sf_call.doc.extracted_age_years, 0, 120)
    /\ (/\ SfReturned("document_passes_ranges")
        /\ AiEstimate("experience", "years_estimate") = PyInt(6)
        /\ sf_call.doc.extracted_experience_years = PyInt(1)
        /\ sf_call.bounds = Bounds(PyInt(5), None, None, None))
       => sf_result = PyBool(TRUE)

\* a set bound rejects the value: an unknown value when exclude_unknowns is
\* set, a known value when it is on the wrong side of the bound
RejectedBy(value, bound, exclude_unknowns, side) ==
    /\ bound # None
    /\ IF value = None THEN exclude_unknowns
       ELSE IF side = "min" THEN value.i < bound.i
       ELSE value.i > bound.i

\* C12: document_passes_ranges rejects the document exactly when one of the
\* four bounds is set and either the resolved value is unknown and
\* exclude_unknowns is true, or the value is known and violates the bound;
\* a bound that is not set never rejects.
C12_Ranges ==
    (SfReturned("document_passes_ranges") /\ ~IsRaise(sf_result)) =>
        sf_result.b =
            ~(\/ RejectedBy(resolve_experience_years(sf_call.doc),
                            sf_call.bounds.experience_min_years,
                            sf_call.exclude_unknowns, "min")
              \/ RejectedBy(resolve_experience_years(sf_call.doc),
                            sf_call.bounds.experience_max_years,
                            sf_call.exclude_unknowns, "max")
              \/ RejectedBy(resolve_age_years(sf_call.doc), sf_call.bounds.age_min_years,
                            sf_call.exclude_unknowns, "min")
              \/ RejectedBy(resolve_age_years(sf_call.doc), sf_call.bounds.age_max_years,
                            sf_call.exclude_unknowns, "max"))

\* C12's case: the experience is known and equal to the minimum, the age is
\* unknown under a set bound, and the document passes as exclude_unknowns
\* is false
C12_Witness ==
    /\ SfReturned("document_passes_ranges")
    /\ resolve_experience_years(sf_call.doc) = PyInt(6)
    /\ sf_call.bounds.experience_min_years = PyInt(6)
    /\ resolve_age_years(sf_call.doc) = None
    /\ sf_call.bounds.age_min_years # None
    /\ ~sf_call.exclude_unknowns
    /\ sf_result = PyBool(TRUE)

\* the term occurs in the text
Occurs(term, text) ==
    \E i \in 0..(Len(text) - Len(term)) : SubSeq(text, i + 1, i + Len(term)) = term

\* the blob of the document of the call
SfBlob == BuildDocumentBlob(sf_call.doc)

\* C13: document_matches_terms is true when terms is empty; with terms it
\* is false when the blob is empty, and otherwise true iff some term (mode
\* "any") or every term (any other mode) is a substring of the blob.
C13_Terms ==
    SfReturned("document_matches_terms") =>
        sf_result.b =
            IF sf_call.terms = <<>> THEN TRUE
            ELSE IF SfBlob = <<>> THEN FALSE
            ELSE IF sf_call.mode = "any"
            THEN \E n \in 1..Len(sf_call.terms) : Occurs(sf_call.terms[n], SfBlob)
            ELSE \A n \in 1..Len(sf_call.terms) : Occurs(sf_call.terms[n], SfBlob)

\* C13's case: in mode "any" one of two terms is in the blob, the other is
\* not, and the document matches
C13_Witness ==
    /\ SfReturned("document_matches_terms")
    /\ sf_call.mode = "any"
    /\ Len(sf_call.terms) = 2
    /\ Occurs(sf_call.terms[1], SfBlob) # Occurs(sf_call.terms[2], SfBlob)
    /\ sf_result = PyBool(TRUE)

\* the term check and the range check of the call pass
SfTermsPass == document_matches_terms(sf_call.doc, sf_call.terms, sf_call.mode)
SfRangesPass ==
    document_passes_ranges(sf_call.doc, sf_call.bounds, sf_call.exclude_unknowns)
        = PyBool(TRUE)

\* an exclude term of the call is a substring of the blob
SfExcluded == \E n \in 1..Len(sf_call.exclude_terms) : Occurs(sf_call.exclude_terms[n], SfBlob)

\* C14 as stated: document_passes_semantic_filters admits a document iff
\* the term check passes, no exclude term is a substring of the document
\* blob, and the range check passes.
C14_AdmitsIff ==
    (SfReturned("document_passes_semantic_filters") /\ ~IsRaise(sf_result)) =>
        sf_result.b = (SfTermsPass /\ ~SfExcluded /\ SfRangesPass)

\* C14, amended: the same, where an exclude term rejects only a document
\* whose blob is not empty.
C14_AdmitsIffNonEmptyBlob ==
    (SfReturned("document_passes_semantic_filters") /\ ~IsRaise(sf_result)) =>
        sf_result.b = (SfTermsPass /\ ~(SfBlob # <<>> /\ SfExcluded) /\ SfRangesPass)

\* C14's case: every required term and an exclude term are in the blob, the
\* ranges pass, and the document is rejected
C14_Witness ==
    /\ SfReturned("document_passes_semantic_filters")
    /\ sf_call.terms # <<>>
    /\ SfTermsPass
    /\ SfBlob # <<>>
    /\ SfExcluded
    /\ SfRangesPass
    /\ sf_result = PyBool(FALSE)

\* the two blobs of the document of the call
SfAiBlob == build_ai_search_blob(get_ai_payload(sf_call.doc))
SfTextBlob == TextBlob(sf_call.doc, CleanText(sf_call.doc.text_content_norm, 0))

\* the AI blob, a space and the text blob when both are non-empty, else
\* whichever is non-empty, else the empty string
BlobOf(ai_blob, text_blob) ==
    IF ai_blob # <<>> /\ text_blob # <<>> THEN ai_blob \o <<" ">> \o text_blob
    ELSE IF ai_blob # <<>> THEN ai_blob
    ELSE IF text_blob # <<>> THEN text_blob
    ELSE <<>>

\* the evidence of the n-th skill of the AI payload
SkillEvidence(n) ==
    Get(AsDict(AsList(Get(get_ai_payload(sf_call.doc), "skills"))[n]), "evidence")

\* the term occurs, in normalized form, in the evidence of a skill of the
\* AI payload (an evidence within the 220 characters of the schema)
InSkillEvidence(term) ==
    \E n \in 1..Len(AsList(Get(get_ai_payload(sf_call.doc), "skills"))) :
        /\ SkillEvidence(n).t = "str"
        /\ Len(SkillEvidence(n).s) <= 220
        /\ Occurs(term, NormalizeForMatch(SkillEvidence(n).s))

\* C15: the document blob is the AI blob, a space and the text blob when
\* both are non-empty, else whichever is non-empty, else the empty string;
\* so a non-empty term that occurs in normalized form in a skill's evidence
\* matches the document even when the plain text does not hold it.
C15_Blob ==
    /\ SfReturned("_build_document_blob") => sf_result = PyStr(BlobOf(SfAiBlob, SfTextBlob))
    /\ (/\ SfReturned("document_matches_terms")
        /\ Len(sf_call.terms) = 1
        /\ sf_call.terms[1] # <<>>
        /\ InSkillEvidence(sf_call.terms[1]))
       => sf_result = PyBool(TRUE)

\* C15's case: the term is in a skill's evidence and not in the text, both
\* blobs are non-empty, and the document matches
C15_Witness ==
    /\ SfReturned("document_matches_terms")
    /\ sf_call.terms = << Chars("docker") >>
    /\ InSkillEvidence(sf_call.terms[1])
    /\ SfAiBlob # <<>>
    /\ SfTextBlob # <<>>
    /\ ~Occurs(sf_call.terms[1], SfTextBlob)
    /\ sf_result = PyBool(TRUE)

\* the evidence index in the order experience, person age, keyword
\* evidence, skills, education
SfIndex ==
    ExperienceEntries(AsDict(Get(get_ai_payload(sf_call.doc), "experience")))
    \o AgeEntries(AsDict(Get(get_ai_payload(sf_call.doc), "person")))
    \o LabelledEntries(AsList(Get(get_ai_payload(sf_call.doc), "keywords_evidence")), "term",
                       "keyword")
    \o LabelledEntries(AsList(Get(get_ai_payload(sf_call.doc), "skills")), "name", "skill")
    \o EducationEntries(AsList(Get(get_ai_payload(sf_call.doc), "education")))

\* the n-th term of the call occurs in the searchable text of entry k
Hit(n, k) == Occurs(sf_call.terms[n], SfIndex[k][1])

\* the n-th term of the call occurs in some entry
TermHits(n) == \E k \in 1..Len(SfIndex) : Hit(n, k)

\* entry k is the earliest entry of the first term that occurs in any entry
TermMajorChoice(k) ==
    \E n \in 1..Len(sf_call.terms) :
        /\ Hit(n, k)
        /\ \A j \in 1..(k - 1) : ~Hit(n, j)
        /\ \A m \in 1..(n - 1) : ~TermHits(m)

\* C16: find_evidence_snippet searches term-major over an index built in
\* the order experience, person age, keyword evidence, skills, education:
\* it returns the (truncated) evidence of the earliest entry of the first
\* term that matches any entry; when no term matches it returns the first
\* entry's evidence if use_first_if_no_term, else the empty string.
C16_TermMajor ==
    (SfReturned("find_evidence_snippet") /\ SfIndex # <<>>) =>
        IF \E n \in 1..Len(sf_call.terms) : TermHits(n)
        THEN \E k \in 1..Len(SfIndex) :
                 /\ TermMajorChoice(k)
                 /\ sf_result = PyStr(Truncate(SfIndex[k][2], sf_call.max_len))
        ELSE IF sf_call.use_first_if_no_term
        THEN sf_result = PyStr(Truncate(SfIndex[1][2], sf_call.max_len))
        ELSE sf_result = PyStr(<<>>)

\* C16's case: the first term occurs only after an entry that holds the
\* second term, and the snippet is the evidence of the first term's entry
C16_Witness ==
    /\ SfReturned("find_evidence_snippet")
    /\ Len(sf_call.terms) = 2
    /\ \E k \in 2..Len(SfIndex) :
           /\ Hit(1, k)
           /\ \A j \in 1..(k - 1) : ~Hit(1, j)
           /\ \E j \in 1..(k - 1) : Hit(2, j)
           /\ sf_result = PyStr(Truncate(SfIndex[k][2], sf_call.max_len))
           /\ sf_result # PyStr(Truncate(SfIndex[1][2], sf_call.max_len))

\* the snippet is the evidence when that fits in max_len characters, and
\* otherwise a prefix of it followed by "..."
SnippetFrom(snippet, evidence, max_len) ==
    IF Len(evidence) <= max_len THEN snippet = evidence
    ELSE \E j \in 0..Len(evidence) : snippet = SubSeq(evidence, 1, j) \o <<".", ".", ".">>

\* C17: for every max_len and evidence the snippet of find_evidence_snippet
\* has at most max_len characters; it is the cleaned evidence when that
\* fits, and otherwise a prefix of it followed by "...".
C17_SnippetLength ==
    SfReturned("find_evidence_snippet") =>
        /\ Len(sf_result.s) <= sf_call.max_len
        /\ sf_result.s # <<>> =>
               \E k \in 1..Len(SfIndex) : SnippetFrom(sf_result.s, SfIndex[k][2], sf_call.max_len)

(***************************************************************************)
(* Properties of the field applier.                                        *)
(***************************************************************************)
\* a call of the given function of processing.py has ended
ApReturned(op) == ap_pc = "returned" /\ ap_call.op = op

\* the decimal num / 100 with two digits after the point
TwoPlaces(num) == PyDecimal(0, Digits(num), -2)

\* C18: for every input value _parse_decimal returns null or a decimal
\* quantized to exactly two decimal places; "1.234,56" gives 1234.56,
\* "10,00" gives 10.00 and "abc" gives null.
C18_TwoPlaces ==
    ApReturned("_parse_decimal") =>
        /\ ap_result = None \/ (ap_result.t = "Decimal" /\ ap_result.exp = -2)
        /\ ap_call.value = Text("1.234,56") => ap_result = TwoPlaces(123456)
        /\ ap_call.value = Text("10,00") => ap_result = TwoPlaces(1000)
        /\ ap_call.value = Text("abc") => ap_result = None

\* the payload field of the call, as apply_extracted_fields reads it
ApField(key) == Get(FieldsOf(ap_call.payload), key)

\* the digit characters of the payload field
ApDigits(key) ==
    IF ApField(key) = None THEN <<>> ELSE SelectSeq(StrOf(ApField(key)), IsDecimalDigit)

\* text is empty or exactly n digit characters
EmptyOrDigits(text, n) ==
    text = <<>> \/ (Len(text) = n /\ \A i \in 1..n : IsDecimalDigit(text[i]))

\* C19: after apply_extracted_fields payee_cnpj and payer_cnpj are each
\* empty or exactly 14 digit characters, cpf is empty or exactly 11 digit
\* characters, and barcode is the first 48 digit characters of its input
\* (a digit character is one the pattern \d matches).
C19_DigitFields ==
    (ApReturned("apply_extracted_fields") /\ ~IsRaise(ap_result)) =>
        /\ EmptyOrDigits(ap_doc.payee_cnpj.s, 14)
        /\ EmptyOrDigits(ap_doc.payer_cnpj.s, 14)
        /\ EmptyOrDigits(ap_doc.cpf.s, 11)
        /\ Len(ap_doc.barcode.s) <= 48
        /\ ap_doc.barcode.s = SubSeq(ApDigits("barcode"), 1, Len(ap_doc.barcode.s))
        /\ Len(ap_doc.barcode.s) < 48 => ap_doc.barcode.s = ApDigits("barcode")

\* C19's case: the payload holds a CNPJ of 15 digits, a CPF of 11 digits
\* and a barcode of 50 digits; the CNPJ is stored empty, the CPF as its 11
\* digits and the barcode as 48 digits
C19_Witness ==
    /\ ApReturned("apply_extracted_fields")
    /\ ap_result = None
    /\ Len(ApDigits("cnpj")) = 15
    /\ ApField("payee_cnpj") = None
    /\ ap_doc.payee_cnpj.s = <<>>
    /\ ApDigits("cpf") # StrOf(ApField("cpf"))
    /\ ap_doc.cpf.s = ApDigits("cpf")
    /\ Len(ApDigits("barcode")) = 50
    /\ Len(ap_doc.barcode.s) = 48

\* the assignments of the call
ApAssignments == Assignments(ap_call.extracted_text, ap_call.payload, ap_call.heuristics)

\* C20: apply_extracted_fields never raises because a date, decimal or
\* digit field of the payload cannot be parsed (a well-formed date that is
\* no calendar date included): the field is stored as null and every other
\* field of the payload is still applied.
C20_NeverRaises ==
    ApReturned("apply_extracted_fields") =>
        /\ ~IsRaise(ap_result)
        /\ \A n \in 1..Len(ApAssignments) :
               ap_doc[ApAssignments[n][1]] =
                   IF IsRaise(ApAssignments[n][2]) THEN None ELSE ApAssignments[n][2]

(***************************************************************************)
(* Properties of the processes on a document row.                          *)
(***************************************************************************)
\* the invocations of process_document_task between marking the document
\* PROCESSING and finishing
TaskRunning == {p \in TaskProcs : tk_pc[p] \in {"processing", "finish"}}

\* the invocation p has returned the skipped result of the given reason
TaskSkipped(p, reason) == tk_pc[p] = "ended" /\ tk_local[p].result = Skipped(reason)

\* C21: under any interleaving of invocations of process_document_task for
\* the same document, with or without force, at most one of them is between
\* marking the document PROCESSING and finishing, and an invocation that
\* found the document PROCESSING has returned skipped without having run
\* process_document.
C21_OneRunAtATime ==
    /\ Cardinality(TaskRunning) <= 1
    /\ \A p \in TaskProcs : TaskSkipped(p, "already_processing") => tk_local[p].data = None

\* one invocation is running and the other was skipped for it
C21_Witness ==
    \E p, q \in TaskProcs :
        /\ p \in TaskRunning
        /\ TaskSkipped(q, "already_processing")
        /\ doc_row.status = "PROCESSING"

\* the step in which file preparation or process_document raises in p
FailureStep(p) == tk_pc[p] = "processing" /\ tk_pc'[p] = "ended" /\ doc_row # NoRow

\* the step in which p, invoked on a FAILED document, leaves its first
\* transaction
BeginOnFailedStep(p) ==
    tk_pc[p] = "start" /\ doc_row.status = "FAILED" /\ tk_pc'[p] # "start"

\* C22: when file preparation or process_document raises inside
\* process_document_task, the status becomes FAILED, the message of the
\* exception is recorded and the exception is raised again; an invocation
\* that finds the document FAILED is not skipped but processes it again.
C22_FailedThenRetried ==
    [][\A p \in TaskProcs :
          /\ FailureStep(p) =>
                /\ doc_row'.status = "FAILED"
                /\ IsRaise(tk_local'[p].result)
                /\ doc_row'.error_message = StrOfExc(tk_local'[p].result.exc)
                /\ doc_row'.error_message # Text("")
          /\ BeginOnFailedStep(p) =>
                /\ tk_pc'[p] = "processing"
                /\ doc_row'.status = "PROCESSING"]_vars

\* an invocation that failed was run again and is processing the document
C22_Witness ==
    \E p \in TaskProcs :
        /\ tk_local[p].retries >= 1
        /\ tk_pc[p] = "processing"
        /\ doc_row.status = "PROCESSING"

\* C23: every run of process_document_task that sets PROCESSING eventually
\* sets DONE or FAILED (or finds the document gone): no run ends leaving
\* the document PROCESSING.
C23_EventuallyFinished ==
    \A p \in TaskProcs :
        (tk_pc[p] = "processing") ~> (doc_row.status \in {"DONE", "FAILED", "missing"})

\* the processes that have passed the status check and are executing
\* process_document
Processing == {p \in ViewProcs \cup TaskProcs : tk_pc[p] = "processing"}

\* C24: under any interleaving of two POSTs to process_document_view, or of
\* a POST and a run of process_document_task, for the same document, at
\* most one of them has passed the status check and is executing
\* process_document.
C24_OneProcessingAtATime == Cardinality(Processing) <= 1

\* the step deletes the file of the document or marks the document deleted
RetentionDeletes ==
    \/ file_stored /\ ~file_stored'
    \/ doc_row # NoRow /\ ~doc_row.is_deleted /\ doc_row'.is_deleted

\* C25: under any interleaving of retention_cleanup_task with
\* process_document_task, retention neither deletes the file of, nor marks
\* as deleted, a document whose status is PROCESSING at that moment.
C25_RetentionSparesProcessing ==
    [][RetentionDeletes => doc_row.status # "PROCESSING"]_vars

\* the step in which p leaves the first transaction of process_document_task
BeginStep(p) == p \in TaskProcs /\ tk_pc[p] = "start" /\ tk_pc'[p] # "start"

\* the document is missing, PROCESSING, or DONE and force is false
SkipCase(p) ==
    \/ doc_row = NoRow
    \/ doc_row.status = "PROCESSING"
    \/ doc_row.status = "DONE" /\ ~tk_local[p].force

\* C26: an invocation of process_document_task that finds the document
\* PROCESSING, or DONE with force false, or missing, returns a skipped
\* result and leaves every field of the document, and its file, unchanged.
C26_SkippedChangesNothing ==
    [][\A p \in TaskProcs :
          (BeginStep(p) /\ SkipCase(p)) =>
              /\ tk_pc'[p] = "ended"
              /\ tk_local'[p].result \in
                    {Skipped(r) : r \in {"missing", "already_processing", "already_done"}}
              /\ doc_row' = doc_row
              /\ file_stored' = file_stored]_vars

\* an invocation without force was skipped on a DONE document, which is as
\* it was
C26_Witness ==
    \E p \in TaskProcs :
        /\ TaskSkipped(p, "already_done")
        /\ ~tk_local[p].force
        /\ doc_row \in InitialRows

====
